---- MODULE Spec2Model ----
(***************************************************************************)
(* Bank-statement import pipeline of the Finance Tracker                   *)
(* (src/src/ui/import_page.py) over the transactions table                 *)
(* (src/core/schema.py, src/core/repos/transactions_repo.py, src/core/db.py)*)
(*                                                                         *)
(* Text is modelled as a sequence of one-character strings, so that the    *)
(* normalizers work on characters as the Python code does.                 *)
(***************************************************************************)
EXTENDS Integers, Sequences, FiniteSets, TLC

----------------------------------------------------------------------------
(* Characters and strings                                                  *)

DigitChars == <<"0", "1", "2", "3", "4", "5", "6", "7", "8", "9">>

IsDigit(c) == \E i \in 1..10 : DigitChars[i] = c

DigitVal(c) == (CHOOSE i \in 1..10 : DigitChars[i] = c) - 1

UpperChars == <<"A", "B", "C", "D", "E", "F", "G", "H", "I", "J", "K", "L", "M",
                "N", "O", "P", "Q", "R", "S", "T", "U", "V", "W", "X", "Y", "Z">>

LowerChars == <<"a", "b", "c", "d", "e", "f", "g", "h", "i", "j", "k", "l", "m",
                "n", "o", "p", "q", "r", "s", "t", "u", "v", "w", "x", "y", "z">>

\* str.lower() on one character
LowerChar(c) ==
    IF \E i \in 1..26 : UpperChars[i] = c
    THEN LowerChars[CHOOSE i \in 1..26 : UpperChars[i] = c]
    ELSE c

\* str.lower()
Lower(s) == [i \in 1..Len(s) |-> LowerChar(s[i])]

\* the whitespace str.strip() removes and the regex class \s matches
IsSpace(c) == c \in {" ", "\t"}

RECURSIVE LStrip(_)
LStrip(s) == IF s # <<>> /\ IsSpace(Head(s)) THEN LStrip(Tail(s)) ELSE s

RECURSIVE RStrip(_)
RStrip(s) ==
    IF s # <<>> /\ IsSpace(s[Len(s)]) THEN RStrip(SubSeq(s, 1, Len(s) - 1)) ELSE s

\* str.strip()
Strip(s) == RStrip(LStrip(s))

\* str.replace(a, b) for single characters a, b
ReplaceChar(s, a, b) == [i \in 1..Len(s) |-> IF s[i] = a THEN b ELSE s[i]]

\* str.startswith at offset p (1-based): sub occurs in s at position p
OccursAt(s, p, sub) ==
    /\ p + Len(sub) - 1 <= Len(s)
    /\ \A j \in 1..Len(sub) : s[p + j - 1] = sub[j]

\* the Python test  sub in s
Contains(s, sub) == \E p \in 1..(Len(s) + 1) : OccursAt(s, p, sub)

\* decimal value of a sequence of digit characters
RECURSIVE DigitsVal(_)
DigitsVal(s) ==
    IF s = <<>> THEN 0
    ELSE 10 * DigitsVal(SubSeq(s, 1, Len(s) - 1)) + DigitVal(s[Len(s)])

AllDigits(s) == \A i \in 1..Len(s) : IsDigit(s[i])

\* a non-negative number below 100 as two digit characters (format :02d)
TwoDigits(n) == <<DigitChars[(n \div 10) + 1], DigitChars[(n % 10) + 1]>>

\* a non-negative number as decimal digit characters, without padding
RECURSIVE NatChars(_)
NatChars(n) ==
    IF n < 10 THEN <<DigitChars[n + 1]>>
    ELSE NatChars(n \div 10) \o <<DigitChars[(n % 10) + 1]>>

\* results of the normalizers: a value, or the message of the ValueError raised
OkVal(v) == [ok |-> TRUE, v |-> v, msg |-> <<>>]
ErrVal(kind, text) == [ok |-> FALSE, v |-> 0, msg |-> <<kind, text>>]

----------------------------------------------------------------------------
(* Amount normalization: ImportPage._parse_amount_to_cents                 *)

DebitMarkers ==
    { <<" ", "d", "r">>, <<"d", "r", " ">>, <<"d", "e", "b", "i", "t">>,
      <<"w", "i", "t", "h", "d", "r", "a", "w", "a", "l">> }

CreditMarkers ==
    { <<" ", "c", "r">>, <<"c", "r", " ">>, <<"c", "r", "e", "d", "i", "t">>,
      <<"d", "e", "p", "o", "s", "i", "t">> }

\* the characters re.sub(r"[^0-9\.\-\+]", "", t) keeps
IsAmountChar(c) == IsDigit(c) \/ c \in {".", "-", "+"}

RECURSIVE CleanAmount(_)
CleanAmount(t) ==
    IF t = <<>> THEN <<>>
    ELSE IF IsAmountChar(Head(t)) THEN <<Head(t)>> \o CleanAmount(Tail(t))
    ELSE CleanAmount(Tail(t))

DegenerateAmounts == { <<"-">>, <<"+">>, <<".">>, <<"-", ".">>, <<"+", ".">> }

\* the text of a float literal without its optional sign
Unsigned(cleaned) ==
    IF cleaned # <<>> /\ cleaned[1] \in {"+", "-"} THEN Tail(cleaned) ELSE cleaned

\* position of the first "." of u, or Len(u) + 1 when there is none
DotPos(u) ==
    IF \E i \in 1..Len(u) : u[i] = "."
    THEN CHOOSE i \in 1..Len(u) : u[i] = "." /\ \A j \in 1..(i - 1) : u[j] # "."
    ELSE Len(u) + 1

IntDigits(u) == SubSeq(u, 1, DotPos(u) - 1)
FracDigits(u) == SubSeq(u, DotPos(u) + 1, Len(u))

\* float(cleaned) succeeds: [+-]? ( digits [. digits*] | . digits ), over the
\* characters the cleaning leaves (no exponent, no inf/nan, no underscore)
FloatParses(cleaned) ==
    LET u == Unsigned(cleaned) IN
    /\ AllDigits(IntDigits(u))
    /\ AllDigits(FracDigits(u))
    /\ Len(IntDigits(u)) + Len(FracDigits(u)) >= 1

\* Natural numbers of any size, as float() and int() compute with them: a
\* sequence of limbs in base Base, least significant first, no high zero limb
Base == 2^15

RECURSIVE BigNorm(_)
BigNorm(a) ==
    IF a # <<>> /\ a[Len(a)] = 0 THEN BigNorm(SubSeq(a, 1, Len(a) - 1)) ELSE a

RECURSIVE BigVal(_)
BigVal(a) == IF a = <<>> THEN 0 ELSE a[1] + Base * BigVal(Tail(a))

\* a * k + c for k < Base, c < Base
RECURSIVE BigMulAdd(_, _, _)
BigMulAdd(a, k, c) ==
    IF a = <<>> THEN (IF c = 0 THEN <<>> ELSE <<c>>)
    ELSE <<(a[1] * k + c) % Base>> \o BigMulAdd(Tail(a), k, (a[1] * k + c) \div Base)

\* the number a string of decimal digits writes
RECURSIVE BigOfDigitsFrom(_, _, _)
BigOfDigitsFrom(ds, i, acc) ==
    IF i > Len(ds) THEN acc
    ELSE BigOfDigitsFrom(ds, i + 1, BigMulAdd(acc, 10, DigitVal(ds[i])))

BigOfDigits(ds) == BigOfDigitsFrom(ds, 1, <<>>)

\* a * 2^s
BigShl(a, s) ==
    IF a = <<>> THEN <<>>
    ELSE [i \in 1..(s \div 15) |-> 0] \o BigMulAdd(a, 2^(s % 15), 0)

\* the limbs i and above of a, modulo d, for d < Base
RECURSIVE BigRem(_, _, _)
BigRem(a, d, i) ==
    IF i > Len(a) THEN 0 ELSE (BigRem(a, d, i + 1) * Base + a[i]) % d

\* the quotient of a by d < Base
BigQuot(a, d) ==
    BigNorm([i \in 1..Len(a) |-> (BigRem(a, d, i + 1) * Base + a[i]) \div d])

\* the quotient of a by 10^f, and whether the division left a remainder
RECURSIVE BigDivPow10(_, _, _)
BigDivPow10(a, f, sticky) ==
    IF f = 0 THEN [q |-> a, sticky |-> sticky]
    ELSE BigDivPow10(BigQuot(a, 10), f - 1, sticky \/ BigRem(a, 10, 1) # 0)

\* the number of bits of a
BigBitLen(a) ==
    IF a = <<>> THEN 0
    ELSE 15 * (Len(a) - 1)
           + CHOOSE k \in 1..15 : 2^(k - 1) <= a[Len(a)] /\ a[Len(a)] < 2^k

\* the quotient of a by 2^s, and whether bits were lost
BigShr(a, s) == BigQuot(SubSeq(a, (s \div 15) + 1, Len(a)), 2^(s % 15))

BigShrSticky(a, s) ==
    \/ \E i \in 1..Len(a) : i <= s \div 15 /\ a[i] # 0
    \/ BigRem(SubSeq(a, (s \div 15) + 1, Len(a)), 2^(s % 15), 1) # 0

BigOdd(a) == a # <<>> /\ a[1] % 2 = 1

\* (y + a fraction that is nonzero iff sticky) / 2 rounded to the nearest
\* integer, a tie going to the even one
BigRoundHalf(y, sticky) ==
    IF BigOdd(y) /\ (sticky \/ BigOdd(BigShr(y, 1)))
    THEN BigMulAdd(BigShr(y, 1), 1, 1)
    ELSE BigShr(y, 1)

\* (a + a fraction that is nonzero iff sticky) / 2^d rounded the same way
BigRoundShift(a, d, sticky) ==
    IF d = 0 THEN a
    ELSE BigRoundHalf(BigShr(a, d - 1), sticky \/ BigShrSticky(a, d - 1))

\* bits of the significand of a binary64 float
MantissaBits == 53

Excess(a) == IF BigBitLen(a) > MantissaBits THEN BigBitLen(a) - MantissaBits ELSE 0

\* the float nearest to a (+ fraction): significand m and exponent e, of
\* value m * 2^e
Mantissa(a, sticky) == [m |-> BigRoundShift(a, Excess(a), sticky), e |-> Excess(a)]

FloatScaled(x, s) == [m |-> x.m, e |-> x.e - s]

\* bits kept below the point in the quotient that float() rounds: enough for
\* the quotient to have more than MantissaBits + 1 bits
GuardBits(fd) == MantissaBits + 2 + 4 * Len(fd)

FloatOfQuot(dq, s) == FloatScaled(Mantissa(dq.q, dq.sticky), s)

\* float("<id>.<fd>"): the binary64 nearest to the decimal, ties to even
FloatOf(id, fd) ==
    FloatOfQuot(BigDivPow10(BigShl(BigOfDigits(id \o fd), GuardBits(fd)), Len(fd), FALSE),
                GuardBits(fd))

\* x * 100 in binary64
Times100(x) == FloatScaled(Mantissa(BigMulAdd(x.m, 100, 0), FALSE), -x.e)

\* int(round(x)): round() of a float goes to the nearest integer, ties to even
RoundInt(x) ==
    IF x.e >= 0 THEN BigShl(x.m, x.e) ELSE BigRoundShift(x.m, -x.e, FALSE)

\* int(round(abs(float(cleaned)) * 100)) from the digits before and after the
\* point
CentsBig(id, fd) == RoundInt(Times100(FloatOf(id, fd)))

CentsOfCleaned(cleaned) ==
    CentsBig(IntDigits(Unsigned(cleaned)), FracDigits(Unsigned(cleaned)))

\* an int of any size: its sign and its magnitude; or the error raised
OkBig(sign, mag) == [ok |-> TRUE, sign |-> sign, mag |-> mag, msg |-> <<>>]
ErrBig(kind, text) == [ok |-> FALSE, sign |-> 1, mag |-> <<>>, msg |-> <<kind, text>>]

\* the same int as an integer of the model
IntOf(w) ==
    IF w.ok THEN OkVal(w.sign * BigVal(w.mag))
    ELSE [ok |-> FALSE, v |-> 0, msg |-> w.msg]

\* MarkerSign with the debit markers tested last
MarkerSign_debit_wins(low, sign) ==
    IF \E x \in DebitMarkers : Contains(low, x) THEN -1
    ELSE IF \E x \in CreditMarkers : Contains(low, x) THEN 1
    ELSE sign

\* the sign after the marker tests, from the sign the parentheses gave
MarkerSign(low, sign) ==
    IF \E x \in CreditMarkers : Contains(low, x) THEN 1
    ELSE IF \E x \in DebitMarkers : Contains(low, x) THEN -1
    ELSE sign

\* _parse_amount_to_cents from the cleaned text on
AmountOfCleaned(raw, cleaned, sign) ==
    IF cleaned = <<>> \/ cleaned \in DegenerateAmounts
    THEN ErrBig("Invalid amount: ", raw)
    ELSE IF ~FloatParses(cleaned)
    THEN ErrBig("could not convert string to float: ", cleaned)
    ELSE OkBig(IF cleaned[1] = "-" THEN -1 ELSE sign, CentsOfCleaned(cleaned))

\* _parse_amount_to_cents from the text inside the parentheses on
AmountOfText(raw, t, sign) ==
    AmountOfCleaned(raw, CleanAmount(t), MarkerSign(Lower(t), sign))

\* _parse_amount_to_cents from the stripped token on
AmountOfRaw(raw) ==
    IF raw = <<>> THEN ErrBig("Missing amount", <<>>)
    ELSE IF raw[1] = "(" /\ raw[Len(raw)] = ")"
    THEN AmountOfText(raw, Strip(SubSeq(raw, 2, Len(raw) - 1)), -1)
    ELSE AmountOfText(raw, raw, 1)

\* _parse_amount_to_cents with its result at full size
AmountOf(s) == AmountOfRaw(Strip(s))

_parse_amount_to_cents(s) == IntOf(AmountOf(s))

----------------------------------------------------------------------------
(* Date normalization: ImportPage._parse_date                              *)

\* fmts with the day/month/year format before the month/day/year format
fmts_day_first ==
    << <<"Y", "-", "m", "-", "d">>,
       <<"Y", "/", "m", "/", "d">>,
       <<"d", "/", "m", "/", "Y">>,
       <<"m", "/", "d", "/", "Y">>,
       <<"d", "-", "b", "-", "Y">>,
       <<"d", "-", "B", "-", "Y">>,
       <<"b", " ", "d", " ", "Y">>,
       <<"B", " ", "d", " ", "Y">> >>

\* the formats tried, in order; "Y", "m", "d", "b", "B" stand for the
\* directives %Y, %m, %d, %b, %B, every other element is a literal character
fmts ==
    << <<"Y", "-", "m", "-", "d">>,
       <<"Y", "/", "m", "/", "d">>,
       <<"m", "/", "d", "/", "Y">>,
       <<"d", "/", "m", "/", "Y">>,
       <<"d", "-", "b", "-", "Y">>,
       <<"d", "-", "B", "-", "Y">>,
       <<"b", " ", "d", " ", "Y">>,
       <<"B", " ", "d", " ", "Y">> >>

MonthNames ==
    << <<"j", "a", "n", "u", "a", "r", "y">>,
       <<"f", "e", "b", "r", "u", "a", "r", "y">>,
       <<"m", "a", "r", "c", "h">>,
       <<"a", "p", "r", "i", "l">>,
       <<"m", "a", "y">>,
       <<"j", "u", "n", "e">>,
       <<"j", "u", "l", "y">>,
       <<"a", "u", "g", "u", "s", "t">>,
       <<"s", "e", "p", "t", "e", "m", "b", "e", "r">>,
       <<"o", "c", "t", "o", "b", "e", "r">>,
       <<"n", "o", "v", "e", "m", "b", "e", "r">>,
       <<"d", "e", "c", "e", "m", "b", "e", "r">> >>

MonthAbbr == [i \in 1..12 |-> SubSeq(MonthNames[i], 1, 3)]

IsLeap(y) == (y % 4 = 0 /\ y % 100 # 0) \/ y % 400 = 0

DaysInMonth(y, m) ==
    IF m = 2 THEN (IF IsLeap(y) THEN 29 ELSE 28)
    ELSE IF m \in {4, 6, 9, 11} THEN 30 ELSE 31

\* the date constructor accepts the fields (otherwise it raises ValueError)
ValidDate(y, m, d) ==
    /\ y >= 1
    /\ m \in 1..12
    /\ d \in 1..DaysInMonth(y, m)

DigitAt(s, p) == p <= Len(s) /\ IsDigit(s[p])

\* The ways a directive or literal can match s at position p, as a sequence of
\* [len, val] in the order the compiled pattern tries them:
\*   %Y  \d\d\d\d                         %m  1[0-2] | 0[1-9] | [1-9]
\*   %d  3[01] | [12]\d | 0[1-9] | [1-9] | " "[1-9]
\*   %b, %B  the month names, longest first, ignoring case
\*   " "  \s+ (greedy)                    any other character: itself
Cands(s, p, el) ==
    LET two == IF DigitAt(s, p) /\ DigitAt(s, p + 1)
               THEN DigitsVal(SubSeq(s, p, p + 1)) ELSE 0
        lead0 == DigitAt(s, p) /\ DigitAt(s, p + 1) /\ s[p] = "0"
        one == IF DigitAt(s, p) THEN DigitVal(s[p]) ELSE 0
        low == Lower(s)
        run == IF p <= Len(s) /\ IsSpace(s[p])
               THEN (CHOOSE n \in 1..(Len(s) - p + 1) :
                        /\ \A j \in 0..(n - 1) : IsSpace(s[p + j])
                        /\ ~(p + n <= Len(s) /\ IsSpace(s[p + n])))
               ELSE 0
    IN  CASE el = "Y" ->
               IF p + 3 <= Len(s) /\ AllDigits(SubSeq(s, p, p + 3))
               THEN << [len |-> 4, val |-> DigitsVal(SubSeq(s, p, p + 3))] >>
               ELSE <<>>
          [] el = "m" ->
               (IF (two \in 10..12) \/ (lead0 /\ two \in 1..9)
                THEN << [len |-> 2, val |-> two] >> ELSE <<>>)
               \o (IF one \in 1..9 THEN << [len |-> 1, val |-> one] >> ELSE <<>>)
          [] el = "d" ->
               (IF (two \in 10..31) \/ (lead0 /\ two \in 1..9)
                THEN << [len |-> 2, val |-> two] >> ELSE <<>>)
               \o (IF one \in 1..9 THEN << [len |-> 1, val |-> one] >> ELSE <<>>)
               \o (IF p <= Len(s) /\ s[p] = " " /\ DigitAt(s, p + 1) /\ s[p + 1] # "0"
                   THEN << [len |-> 2, val |-> DigitVal(s[p + 1])] >> ELSE <<>>)
          [] el = "b" ->
               IF \E i \in 1..12 : OccursAt(low, p, MonthAbbr[i])
               THEN << [len |-> 3,
                        val |-> CHOOSE i \in 1..12 : OccursAt(low, p, MonthAbbr[i])] >>
               ELSE <<>>
          [] el = "B" ->
               IF \E i \in 1..12 : OccursAt(low, p, MonthNames[i])
               THEN LET i == CHOOSE i \in 1..12 : OccursAt(low, p, MonthNames[i])
                    IN  << [len |-> Len(MonthNames[i]), val |-> i] >>
               ELSE <<>>
          [] el = " " -> [k \in 1..run |-> [len |-> run + 1 - k, val |-> 0]]
          [] OTHER ->
               IF p <= Len(s) /\ s[p] = el THEN << [len |-> 1, val |-> 0] >> ELSE <<>>

NoMatch == [ok |-> FALSE, y |-> 0, m |-> 0, d |-> 0, end |-> 0]

PutField(acc, el, v) ==
    CASE el = "Y" -> [acc EXCEPT !.y = v]
      [] el \in {"m", "b", "B"} -> [acc EXCEPT !.m = v]
      [] el = "d" -> [acc EXCEPT !.d = v]
      [] OTHER -> acc

\* re.match of the compiled format: the first way to match all of fmt from
\* position p, trying the alternatives in order and backtracking
RECURSIVE MatchFmt(_, _, _, _, _), TryCands(_, _, _, _, _, _, _)
MatchFmt(s, p, fmt, k, acc) ==
    IF k > Len(fmt) THEN [acc EXCEPT !.ok = TRUE, !.end = p]
    ELSE TryCands(s, p, fmt, k, acc, Cands(s, p, fmt[k]), 1)

TryCands(s, p, fmt, k, acc, cands, i) ==
    IF i > Len(cands) THEN NoMatch
    ELSE LET r == MatchFmt(s, p + cands[i].len, fmt, k + 1,
                           PutField(acc, fmt[k], cands[i].val))
         IN  IF r.ok THEN r ELSE TryCands(s, p, fmt, k, acc, cands, i + 1)

\* datetime.strptime(s, fmt): the match must use the whole string and the
\* fields must form a date; ok = FALSE stands for the ValueError
Checked(s, r) ==
    IF r.ok /\ r.end = Len(s) + 1 /\ ValidDate(r.y, r.m, r.d) THEN r ELSE NoMatch

strptime(s, fmt) == Checked(s, MatchFmt(s, 1, fmt, 1, NoMatch))

\* strftime("%Y-%m-%d"); the C library prints a year below 1000 unpadded
strftime(r) == NatChars(r.y) \o <<"-">> \o TwoDigits(r.m) \o <<"-">> \o TwoDigits(r.d)

\* the loop over fmts from format i on, and the fallback after it
RECURSIVE TryFormats(_, _, _)
TryFormats(s, s2, i) ==
    IF i > Len(fmts)
    THEN IF Len(s) >= 10 /\ s[5] \in {"-", "/"} /\ s[8] \in {"-", "/"}
         THEN OkVal(ReplaceChar(SubSeq(s, 1, 10), "/", "-"))
         ELSE ErrVal("Unrecognized date: ", s)
    ELSE IF strptime(s2, fmts[i]).ok THEN OkVal(strftime(strptime(s2, fmts[i])))
    ELSE TryFormats(s, s2, i + 1)

\* _parse_date from the stripped token on
DateOfStripped(s) ==
    IF s = <<>> THEN ErrVal("Missing date", <<>>)
    ELSE TryFormats(s, Strip(ReplaceChar(s, ".", "/")), 1)

_parse_date(raw) == DateOfStripped(Strip(raw))

----------------------------------------------------------------------------
(* The ledger: table transactions, its duplicate query and its insert      *)

\* SQL NULL in an integer column (category_id) and the userData None of the
\* account combo; AUTOINCREMENT ids start at 1
NullId == 0

\* SQL NULL in the text column description: no text holds this element
NullText == <<"NULL">>

\* userData of the "(choose)" item of a mapping combo
Unset == -1

\* the description compared as stored, without COALESCE
Coalesce_none(description) == description

\* COALESCE(description, '')
Coalesce(description) == IF description = NullText THEN <<>> ELSE description

\* _transaction_exists comparing the stored cents with an amount in dollars
_transaction_exists_dollars(table, account_id, occurred_on, amount_cents, description) ==
    \E i \in 1..Len(table) :
        /\ table[i].account_id = account_id
        /\ table[i].occurred_on = occurred_on
        /\ table[i].amount_cents = amount_cents \div 100
        /\ Coalesce(table[i].description) = description

\* _transaction_exists comparing the descriptions without regard to case
_transaction_exists_nocase(table, account_id, occurred_on, amount_cents, description) ==
    \E i \in 1..Len(table) :
        /\ table[i].account_id = account_id
        /\ table[i].occurred_on = occurred_on
        /\ table[i].amount_cents = amount_cents
        /\ Lower(Coalesce(table[i].description)) = Lower(description)

\* ImportPage._transaction_exists over the rows of the table
_transaction_exists(table, account_id, occurred_on, amount_cents, description) ==
    \E i \in 1..Len(table) :
        /\ table[i].account_id = account_id
        /\ table[i].occurred_on = occurred_on
        /\ table[i].amount_cents = amount_cents
        /\ Coalesce(table[i].description) = description

MaxId(table) ==
    IF table = <<>> THEN 0
    ELSE CHOOSE n \in {table[i].id : i \in 1..Len(table)} :
            \A i \in 1..Len(table) : table[i].id <= n

\* add_transaction called by position: category_id and amount_cents change places
add_transaction_swapped(table, account_id, category_id, amount_cents, occurred_on, description) ==
    Append(table, [id           |-> MaxId(table) + 1,
                   account_id   |-> account_id,
                   category_id  |-> amount_cents,
                   amount_cents |-> category_id,
                   description  |-> description,
                   occurred_on  |-> occurred_on])

\* add_transaction as INSERT OR REPLACE on the newest id
add_transaction_replace(table, account_id, category_id, amount_cents, occurred_on, description) ==
    IF table = <<>>
    THEN <<[id |-> 1, account_id |-> account_id, category_id |-> category_id,
            amount_cents |-> amount_cents, description |-> description,
            occurred_on |-> occurred_on]>>
    ELSE [table EXCEPT ![Len(table)] =
            [id |-> MaxId(table), account_id |-> account_id,
             category_id |-> category_id, amount_cents |-> amount_cents,
             description |-> description, occurred_on |-> occurred_on]]

\* TransactionsRepo.add_transaction with Database.execute: one INSERT,
\* committed at once; the table after it
add_transaction(table, account_id, category_id, amount_cents, occurred_on, description) ==
    Append(table, [id           |-> MaxId(table) + 1,
                   account_id   |-> account_id,
                   category_id  |-> category_id,
                   amount_cents |-> amount_cents,
                   description  |-> description,
                   occurred_on  |-> occurred_on])

----------------------------------------------------------------------------
(* One data row of the scan                                                *)

\* row[i] for a zero-based column index i
Cell(row, i) == row[i + 1]

Abs(n) == IF n < 0 THEN -n ELSE n

\* the result of a debit (sign -1) or credit (sign 1) token
Signed(sign, r) == IF r.ok THEN OkVal(sign * Abs(r.v)) ELSE r

\* DebitCredit looking at the credit text first
DebitCredit_credit_first(debit_text, credit_text) ==
    IF credit_text # <<>> THEN Signed(1, _parse_amount_to_cents(credit_text))
    ELSE IF debit_text # <<>> THEN Signed(-1, _parse_amount_to_cents(debit_text))
    ELSE ErrVal("Missing amount (no debit/credit)", <<>>)

\* ImportPage._amount_from_row from the stripped debit and credit texts on
DebitCredit(debit_text, credit_text) ==
    IF debit_text # <<>> THEN Signed(-1, _parse_amount_to_cents(debit_text))
    ELSE IF credit_text # <<>> THEN Signed(1, _parse_amount_to_cents(credit_text))
    ELSE ErrVal("Missing amount (no debit/credit)", <<>>)

\* ImportPage._amount_from_row
_amount_from_row(row, amt_i, debit_i, credit_i) ==
    IF amt_i # Unset /\ amt_i < Len(row)
    THEN _parse_amount_to_cents(Strip(Cell(row, amt_i)))
    ELSE DebitCredit(IF debit_i # Unset /\ debit_i < Len(row)
                     THEN Strip(Cell(row, debit_i)) ELSE <<>>,
                     IF credit_i # Unset /\ credit_i < Len(row)
                     THEN Strip(Cell(row, credit_i)) ELSE <<>>)

\* Normalize reading row[s_i] without the test of the length: the IndexError
\* of a short row is caught as the error of the row
Normalize_unguarded(row, map) ==
    [desc         |-> IF map.s_i < Len(row) THEN Strip(Cell(row, map.s_i)) ELSE <<>>,
     occurred_on  |-> IF map.s_i < Len(row)
                      THEN _parse_date(IF map.d_i < Len(row)
                                       THEN Strip(Cell(row, map.d_i)) ELSE <<>>)
                      ELSE ErrVal("list index out of range", <<>>),
     amount_cents |-> _amount_from_row(row, map.amt_i, map.debit_i, map.credit_i)]

\* The normalization of one row in _scan_full_file: the stripped description,
\* the date and the amount, each a value or the error raised
Normalize(row, map) ==
    [desc         |-> IF map.s_i < Len(row) THEN Strip(Cell(row, map.s_i)) ELSE <<>>,
     occurred_on  |-> _parse_date(IF map.d_i < Len(row)
                                  THEN Strip(Cell(row, map.d_i)) ELSE <<>>),
     amount_cents |-> _amount_from_row(row, map.amt_i, map.debit_i, map.credit_i)]

----------------------------------------------------------------------------
(* Column inference: ImportPage._set_mapping_options                       *)

\* the keywords of the roles, as the calls of pick list them
DateKeywords ==
    << <<"d", "a", "t", "e">>,
       <<"p", "o", "s", "t", "e", "d">>,
       <<"p", "o", "s", "t", "i", "n", "g">>,
       <<"t", "r", "a", "n", "s", "a", "c", "t", "i", "o", "n", " ", "d", "a", "t", "e">>,
       <<"t", "r", "a", "n", "s", " ", "d", "a", "t", "e">> >>

DescKeywords ==
    << <<"d", "e", "s", "c", "r", "i", "p", "t", "i", "o", "n">>,
       <<"d", "e", "t", "a", "i", "l", "s">>,
       <<"m", "e", "r", "c", "h", "a", "n", "t">>,
       <<"n", "a", "m", "e">>,
       <<"m", "e", "m", "o">>,
       <<"p", "a", "y", "e", "e">> >>

AmountKeywords ==
    << <<"a", "m", "o", "u", "n", "t">>,
       <<"a", "m", "t">>,
       <<"v", "a", "l", "u", "e">>,
       <<"t", "r", "a", "n", "s", "a", "c", "t", "i", "o", "n", " ", "a", "m", "o", "u", "n", "t">>,
       <<"t", "o", "t", "a", "l">> >>

DebitKeywords ==
    << <<"d", "e", "b", "i", "t">>,
       <<"w", "i", "t", "h", "d", "r", "a", "w", "a", "l">>,
       <<"m", "o", "n", "e", "y", " ", "o", "u", "t">>,
       <<"s", "p", "e", "n", "t">> >>

CreditKeywords ==
    << <<"c", "r", "e", "d", "i", "t">>,
       <<"d", "e", "p", "o", "s", "i", "t">>,
       <<"m", "o", "n", "e", "y", " ", "i", "n">>,
       <<"r", "e", "c", "e", "i", "v", "e", "d">> >>

\* any(k in h2 for k in keywords) with h2 = h.lower()
HasKeyword(h, keywords) == \E j \in 1..Len(keywords) : Contains(Lower(h), keywords[j])

\* PickFrom without the return: the last matching header is selected
RECURSIVE PickFrom_last(_, _, _)
PickFrom_last(headers, keywords, i) ==
    IF i >= Len(headers) THEN Unset
    ELSE IF PickFrom_last(headers, keywords, i + 1) # Unset
    THEN PickFrom_last(headers, keywords, i + 1)
    ELSE IF HasKeyword(Cell(headers, i), keywords) THEN i
    ELSE Unset

\* The loop of pick from header i on: the userData of the item the combo
\* shows after it. The combo holds "(choose)" with userData Unset, selected
\* when it is filled, and one item per header with its index as userData, so
\* findData(i) finds the item of header i.
RECURSIVE PickFrom(_, _, _)
PickFrom(headers, keywords, i) ==
    IF i >= Len(headers) THEN Unset
    ELSE IF HasKeyword(Cell(headers, i), keywords) THEN i
    ELSE PickFrom(headers, keywords, i + 1)

\* pick(cb, keywords) of _set_mapping_options
pick(headers, keywords) == PickFrom(headers, keywords, 0)

\* ImportPage._set_mapping_options: the userData of the combos after it, from
\* the userData map before it; the account combo is not touched
_set_mapping_options(headers, map) ==
    [map EXCEPT !.d_i = pick(headers, DateKeywords),
                !.s_i = pick(headers, DescKeywords),
                !.amt_i = pick(headers, AmountKeywords),
                !.debit_i = pick(headers, DebitKeywords),
                !.credit_i = pick(headers, CreditKeywords)]

----------------------------------------------------------------------------
(* The files, mappings and ledgers the behaviours start from               *)

tIso == <<"2", "0", "2", "4", "-", "0", "3", "-", "0", "4">>
tIsoSlash == <<"2", "0", "2", "4", "/", "0", "3", "/", "0", "4">>
tUs == <<"0", "3", "/", "0", "5", "/", "2", "0", "2", "4">>
tBadDate == <<"1", "3", "/", "4", "5", "/", "2", "0", "2", "4">>
tCoffeePadded == <<" ", "C", "o", "f", "f", "e", "e", " ">>
tCoffee == <<"C", "o", "f", "f", "e", "e">>
tRent == <<"R", "e", "n", "t">>
tPay == <<"P", "a", "y">>
tAmt == <<"1", "2", ".", "5", "0">>
tAmtDollar == <<"$", "1", "2", ".", "5", "0">>
tAmtParen == <<"(", "5", ".", "0", "0", ")">>
tSeven == <<"7">>
tBadAmt == <<"1", ".", "2", ".", "3">>
tCredit == <<"4", "5", ".", "0", "0", " ", "C", "R">>
hDate == <<"D", "a", "t", "e">>
hDesc == <<"D", "e", "s", "c", "r", "i", "p", "t", "i", "o", "n">>
hAmount == <<"A", "m", "o", "u", "n", "t">>
hCredit == <<"C", "r", "e", "d", "i", "t">>

Line(row) == [err |-> FALSE, row |-> row]

\* a line on which the reader raises
BadLine == [err |-> TRUE, row |-> <<>>]

HeaderLine == Line(<<hDate, hDesc, hAmount, hCredit>>)

\* the data lines files are built from
RowShapes ==
    { Line(<<tIso, tCoffeePadded, tAmt, <<>>>>),
      Line(<<tIsoSlash, tCoffee, tAmtDollar, <<>>>>),
      Line(<<tUs, tRent, tAmtParen, tSeven>>),
      Line(<<tIso, tPay, <<>>, tCredit>>),
      Line(<<tBadDate, tCoffee, tAmt, <<>>>>),
      Line(<<tIso, tCoffee, tBadAmt, <<>>>>),
      Line(<<tIso>>),
      Line(<<>>),
      BadLine }

\* the data lines of the long files: two failures with different messages,
\* around one valid row
LongShapes ==
    { Line(<<tBadDate, tCoffee, tAmt, <<>>>>),
      Line(<<tIso, tCoffee, tBadAmt, <<>>>>) }

ValidLine == Line(<<tIso, tCoffee, tAmt, <<>>>>)

\* bounds of the model: data rows of a file, and of a long file
MaxRows == 2
MaxLongRows == 6

SeqsUpTo(S, n) == UNION {[1..k -> S] : k \in 0..n}

\* a header and up to MaxRows data lines, the empty file, an unreadable file
Files ==
    {<<HeaderLine>> \o rows : rows \in SeqsUpTo(RowShapes, MaxRows)}
       \cup {<<>>, <<BadLine>>}

LongFiles ==
    { <<HeaderLine>> \o SubSeq(rows, 1, 2) \o <<ValidLine>> \o SubSeq(rows, 3, MaxLongRows) :
        rows \in [1..MaxLongRows -> LongShapes] }

Mapping(d, s, a, db, cr, acc) ==
    [d_i |-> d, s_i |-> s, amt_i |-> a, debit_i |-> db, credit_i |-> cr,
     account_id |-> acc]

\* single amount column; debit and credit columns; description in the last
\* column with a single amount column
MapAmount == Mapping(0, 1, 2, Unset, Unset, 1)
MapDebitCredit == Mapping(0, 1, Unset, 2, 3, 1)
MapDescLast == Mapping(0, 3, 2, Unset, Unset, 1)

\* every way to leave roles unset, with and without an account
AllMappings ==
    { Mapping(d, s, a, db, cr, acc) :
        d \in {Unset, 0}, s \in {Unset, 1}, a \in {Unset, 2},
        db \in {Unset, 2}, cr \in {Unset, 3}, acc \in {NullId, 1} }

Tx(id, acc, cat, amt, desc, date) ==
    [id |-> id, account_id |-> acc, category_id |-> cat, amount_cents |-> amt,
     description |-> desc, occurred_on |-> date]

Ledgers ==
    { <<>>,
      << Tx(1, 1, 3, 1250, tCoffee, tIso) >>,
      << Tx(4, 2, NullId, 1250, tCoffee, tIso),
         Tx(7, 1, NullId, 1250, NullText, tIso),
         Tx(8, 1, 3, 1250, <<"c", "o", "f", "f", "e", "e">>, tIso) >> }

SmallFiles == {<<HeaderLine, Line(<<tIso, tCoffee, tAmt, tCredit>>)>>, <<BadLine>>}

\* data lines shorter than the header: without the last cell, without the
\* amount cells, with the date only, and without any cell
ShortShapes ==
    { Line(<<tIso, tCoffee, tAmt>>),
      Line(<<tUs, tRent>>),
      Line(<<tIso>>),
      Line(<<>>) }

ShortFiles == {<<HeaderLine>> \o rows : rows \in [1..2 -> ShortShapes]}

Configs ==
    (Files \X {MapAmount, MapDebitCredit, MapDescLast} \X Ledgers)
       \cup (LongFiles \X {MapAmount} \X {<<>>})
       \cup (SmallFiles \X AllMappings \X {<<>>})
       \cup (ShortFiles \X {MapAmount, MapDescLast} \X {<<>>})

\* Classify without the test of dry_run before the insert
Classify_always_insert(n, table, map, dry) ==
    IF ~n.occurred_on.ok
    THEN [tag |-> "Failed", msg |-> n.occurred_on.msg, table |-> table, inserts |-> 0,
          fault |-> "none"]
    ELSE IF ~n.amount_cents.ok
    THEN [tag |-> "Failed", msg |-> n.amount_cents.msg, table |-> table, inserts |-> 0,
          fault |-> "none"]
    ELSE IF _transaction_exists(table, map.account_id, n.occurred_on.v,
                                n.amount_cents.v, n.desc)
    THEN [tag |-> "Duplicate", msg |-> <<>>, table |-> table, inserts |-> 0,
          fault |-> "none"]
    ELSE [tag |-> "Accepted", msg |-> <<>>,
          table |-> add_transaction(table, map.account_id, NullId,
                                    n.amount_cents.v, n.occurred_on.v, n.desc),
          inserts |-> 1, fault |-> "none"]

\* Classify with an insert that refuses the empty description
Classify_desc_required(n, table, map, dry) ==
    IF ~n.occurred_on.ok
    THEN [tag |-> "Failed", msg |-> n.occurred_on.msg, table |-> table, inserts |-> 0,
          fault |-> "none"]
    ELSE IF ~n.amount_cents.ok
    THEN [tag |-> "Failed", msg |-> n.amount_cents.msg, table |-> table, inserts |-> 0,
          fault |-> "none"]
    ELSE IF _transaction_exists(table, map.account_id, n.occurred_on.v,
                                n.amount_cents.v, n.desc)
    THEN [tag |-> "Duplicate", msg |-> <<>>, table |-> table, inserts |-> 0,
          fault |-> "none"]
    ELSE IF ~dry /\ n.desc = <<>>
    THEN [tag |-> "Failed", msg |-> <<"NOT NULL constraint failed", <<>>>>,
          table |-> table, inserts |-> 1, fault |-> "none"]
    ELSE [tag |-> "Accepted", msg |-> <<>>,
          table |-> IF dry THEN table
                    ELSE add_transaction(table, map.account_id, NullId,
                                         n.amount_cents.v, n.occurred_on.v, n.desc),
          inserts |-> IF dry THEN 0 ELSE 1, fault |-> "none"]

\* The loop body of ImportPage._scan_full_file after the normalization n of
\* the row: the tag of the row ("Accepted", "Duplicate", "Failed"), the
\* message of a failure, the table after the row, and the number of calls of
\* add_transaction.
Classify(n, table, map, dry) ==
    IF ~n.occurred_on.ok
    THEN [tag |-> "Failed", msg |-> n.occurred_on.msg, table |-> table, inserts |-> 0,
          fault |-> "none"]
    ELSE IF ~n.amount_cents.ok
    THEN [tag |-> "Failed", msg |-> n.amount_cents.msg, table |-> table, inserts |-> 0,
          fault |-> "none"]
    ELSE IF _transaction_exists(table, map.account_id, n.occurred_on.v,
                                n.amount_cents.v, n.desc)
    THEN [tag |-> "Duplicate", msg |-> <<>>, table |-> table, inserts |-> 0,
          fault |-> "none"]
    ELSE [tag |-> "Accepted", msg |-> <<>>,
          table |-> IF dry THEN table
                    ELSE add_transaction(table, map.account_id, NullId,
                                         n.amount_cents.v, n.occurred_on.v, n.desc),
          inserts |-> IF dry THEN 0 ELSE 1, fault |-> "none"]

\* The body of the loop of ImportPage._scan_full_file for one row
RowStep(row, table, map, dry) == Classify(Normalize(row, map), table, map, dry)

\* The storage errors of a row: "query", the SELECT of _transaction_exists
\* raises; "insert", the INSERT of add_transaction raises and stores nothing;
\* "commit", the INSERT runs and the commit that follows it in
\* Database.execute raises, the row staying in the open transaction of the
\* connection, where the later queries of the page see it
Faults == {"query", "insert", "commit"}

\* str(e) of the sqlite3 error
StorageMsg == <<"database is locked", <<>>>>

\* ClassifyFault calling add_transaction again when it raised
ClassifyFault_retry(n, table, map, dry, fault) ==
    IF ~n.occurred_on.ok \/ ~n.amount_cents.ok
    THEN Classify(n, table, map, dry)
    ELSE IF fault = "query"
    THEN [tag |-> "Failed", msg |-> StorageMsg, table |-> table, inserts |-> 0,
          fault |-> "query"]
    ELSE IF dry \/ _transaction_exists(table, map.account_id, n.occurred_on.v,
                                      n.amount_cents.v, n.desc)
    THEN Classify(n, table, map, dry)
    ELSE [tag |-> "Accepted", msg |-> <<>>,
          table |-> add_transaction(
                        IF fault = "commit"
                        THEN add_transaction(table, map.account_id, NullId,
                                             n.amount_cents.v, n.occurred_on.v, n.desc)
                        ELSE table,
                        map.account_id, NullId, n.amount_cents.v, n.occurred_on.v,
                        n.desc),
          inserts |-> 2, fault |-> fault]

\* The loop body when the storage is to raise the error fault at its next
\* call of the kind: the except clause makes the row Failed with the message
\* of the error. A row that does not reach the call is classified as by
\* Classify, with fault "none".
ClassifyFault(n, table, map, dry, fault) ==
    IF ~n.occurred_on.ok \/ ~n.amount_cents.ok
    THEN Classify(n, table, map, dry)
    ELSE IF fault = "query"
    THEN [tag |-> "Failed", msg |-> StorageMsg, table |-> table, inserts |-> 0,
          fault |-> "query"]
    ELSE IF dry \/ _transaction_exists(table, map.account_id, n.occurred_on.v,
                                      n.amount_cents.v, n.desc)
    THEN Classify(n, table, map, dry)
    ELSE [tag |-> "Failed", msg |-> StorageMsg,
          table |-> IF fault = "commit"
                    THEN add_transaction(table, map.account_id, NullId,
                                         n.amount_cents.v, n.occurred_on.v, n.desc)
                    ELSE table,
          inserts |-> 1, fault |-> fault]

----------------------------------------------------------------------------
(* The import page                                                         *)

VARIABLES
    csv_file,   \* the lines of the file at csv_path, as csv.reader yields them
    mapping,    \* userData of the combos: d_i, s_i, amt_i, debit_i, credit_i, account_id
    ledger,     \* the rows of table transactions, in insertion order
    pc,         \* "idle", "scan" (inside _scan_full_file), "confirm" (question box)
    op,         \* the handler running: "none", "preview", "import"
    dry_run,    \* the argument of the running _scan_full_file
    pos,        \* the line of csv_file the reader yields next
    imported,   \* the locals of _scan_full_file
    skipped,
    failed,
    errors,
    status,     \* what status_label shows
    warning,    \* the text of the last "Missing mapping" box, <<>> when none
    raised,     \* an exception left the running handler
    outcomes,   \* history: the tag given to each row of the running scan
    ledger0,    \* history: the ledger when the running scan began
    log,        \* history: one entry per scan that returned
    nops,       \* history: handlers started
    answer,     \* history: the answer to the question box of the running import_csv
    handles,    \* the number of open handles of the file at csv_path
    storage,    \* history: per row of the running scan, the storage error it met
                \* and its calls of add_transaction
    foreign,    \* history: the inserts of other writers
    fn,         \* a function of the page called on its own: its name,
    arg,        \* its argument,
    ret         \* and <<>> before it returns, <<result>> after

\* the state of the import page and of the table
page_vars == <<csv_file, mapping, ledger, pc, op, dry_run, pos, imported, skipped,
               failed, errors, status, warning, raised, outcomes, ledger0, log,
               nops, answer, handles, storage, foreign>>

\* the state of a function called on its own
call_vars == <<fn, arg, ret>>

vars == <<page_vars, call_vars>>

\* number of error messages a report keeps
MaxErrors == 5

\* bound of the model: handlers started in one behaviour
MaxOps == 2

\* _validate_mapping asking for both the debit and the credit column
_validate_mapping_or(map) ==
    IF map.d_i = Unset \/ map.s_i = Unset \/ map.account_id = NullId
    THEN [ok |-> FALSE, msg |-> "Please choose Date, Desc, and an Account."]
    ELSE IF map.amt_i = Unset /\ (map.debit_i = Unset \/ map.credit_i = Unset)
    THEN [ok |-> FALSE, msg |-> "Choose Amount, or Debit/Credit columns."]
    ELSE [ok |-> TRUE, msg |-> ""]

\* ImportPage._validate_mapping
_validate_mapping(map) ==
    IF map.d_i = Unset \/ map.s_i = Unset \/ map.account_id = NullId
    THEN [ok |-> FALSE, msg |-> "Please choose Date, Desc, and an Account."]
    ELSE IF map.amt_i = Unset /\ (map.debit_i = Unset /\ map.credit_i = Unset)
    THEN [ok |-> FALSE, msg |-> "Choose Amount, or Debit/Credit columns."]
    ELSE [ok |-> TRUE, msg |-> ""]

NoStatus == [kind |-> "", valid |-> 0, dup |-> 0, failed |-> 0, errors |-> <<>>]

\* next(reader, None) raises on the first line of the file
HeaderRaises == csv_file # <<>> /\ csv_file[1].err

\* BeginScan with the counters kept from the scan before
BeginScan_keep(dry) ==
    /\ dry_run' = dry
    /\ UNCHANGED <<imported, skipped, failed, errors>>
    /\ outcomes' = <<>>
    /\ storage' = <<>>
    /\ ledger0' = ledger
    /\ IF HeaderRaises
       THEN /\ pc' = "idle"
            /\ raised' = TRUE
            /\ pos' = 1
            /\ handles' = handles
       ELSE /\ pc' = "scan"
            /\ raised' = FALSE
            /\ pos' = 2
            /\ handles' = handles + 1

\* Entry of _scan_full_file: the locals are set, the file is opened and the
\* header is read; an error reading it leaves the with statement, which
\* closes the file, and the handler.
BeginScan(dry) ==
    /\ dry_run' = dry
    /\ imported' = 0
    /\ skipped' = 0
    /\ failed' = 0
    /\ errors' = <<>>
    /\ outcomes' = <<>>
    /\ storage' = <<>>
    /\ ledger0' = ledger
    /\ IF HeaderRaises
       THEN /\ pc' = "idle"
            /\ raised' = TRUE
            /\ pos' = 1
            /\ handles' = handles
       ELSE /\ pc' = "scan"
            /\ raised' = FALSE
            /\ pos' = 2
            /\ handles' = handles + 1

\* StartHandler showing the warning and going on to the scan
StartHandler_scans(name) ==
    /\ pc = "idle"
    /\ nops < MaxOps
    /\ nops' = nops + 1
    /\ warning' = _validate_mapping(mapping).msg
    /\ op' = IF HeaderRaises THEN "none" ELSE name
    /\ BeginScan(TRUE)
    /\ answer' = "none"
    /\ UNCHANGED <<csv_file, mapping, ledger, status, log, foreign, call_vars>>

\* A handler that begins with the validation and then the dry-run scan
StartHandler(name) ==
    /\ pc = "idle"
    /\ nops < MaxOps
    /\ nops' = nops + 1
    /\ LET v == _validate_mapping(mapping)
       IN  IF ~v.ok
           THEN /\ warning' = v.msg
                /\ op' = "none"
                /\ raised' = FALSE
                /\ UNCHANGED <<pc, dry_run, pos, imported, skipped, failed, errors,
                               outcomes, ledger0, handles, storage>>
           ELSE /\ warning' = ""
                /\ op' = IF HeaderRaises THEN "none" ELSE name
                /\ BeginScan(TRUE)
    /\ answer' = "none"
    /\ UNCHANGED <<csv_file, mapping, ledger, status, log, foreign, call_vars>>

\* ImportPage.preview_import, up to the first row of its scan
preview_import == StartHandler("preview")

\* ImportPage.import_csv, up to the first row of its dry-run scan
import_csv == StartHandler("import")

\* Count keeping one message more than MaxErrors
Count_off_by_one(r) ==
    /\ ledger' = r.table
    /\ imported' = IF r.tag = "Accepted" THEN imported + 1 ELSE imported
    /\ skipped' = IF r.tag = "Duplicate" THEN skipped + 1 ELSE skipped
    /\ failed' = IF r.tag = "Failed" THEN failed + 1 ELSE failed
    /\ errors' = IF r.tag = "Failed" /\ Len(errors) <= MaxErrors
                 THEN Append(errors, r.msg) ELSE errors
    /\ outcomes' = Append(outcomes, r.tag)
    /\ storage' = Append(storage, [fault |-> r.fault, inserts |-> r.inserts])

\* Count with the inserts of the scan undone when a row fails
Count_rollback(r) ==
    /\ ledger' = IF r.tag = "Failed" THEN ledger0 ELSE r.table
    /\ imported' = IF r.tag = "Accepted" THEN imported + 1 ELSE imported
    /\ skipped' = IF r.tag = "Duplicate" THEN skipped + 1 ELSE skipped
    /\ failed' = IF r.tag = "Failed" THEN failed + 1 ELSE failed
    /\ errors' = IF r.tag = "Failed" /\ Len(errors) < MaxErrors
                 THEN Append(errors, r.msg) ELSE errors
    /\ outcomes' = Append(outcomes, r.tag)
    /\ storage' = Append(storage, [fault |-> r.fault, inserts |-> r.inserts])

\* The effect of one loop iteration with result r on the locals and the ledger
Count(r) ==
    /\ ledger' = r.table
    /\ imported' = IF r.tag = "Accepted" THEN imported + 1 ELSE imported
    /\ skipped' = IF r.tag = "Duplicate" THEN skipped + 1 ELSE skipped
    /\ failed' = IF r.tag = "Failed" THEN failed + 1 ELSE failed
    /\ errors' = IF r.tag = "Failed" /\ Len(errors) < MaxErrors
                 THEN Append(errors, r.msg) ELSE errors
    /\ outcomes' = Append(outcomes, r.tag)
    /\ storage' = Append(storage, [fault |-> r.fault, inserts |-> r.inserts])

\* ScanRow leaving the loop at the first failed row
ScanRow_break ==
    /\ pc = "scan"
    /\ pos <= Len(csv_file)
    /\ ~csv_file[pos].err
    /\ Count(RowStep(csv_file[pos].row, ledger, mapping, dry_run))
    /\ pos' = IF RowStep(csv_file[pos].row, ledger, mapping, dry_run).tag = "Failed"
              THEN Len(csv_file) + 1 ELSE pos + 1
    /\ UNCHANGED <<csv_file, mapping, pc, op, dry_run, status, warning, raised,
                   ledger0, log, nops, answer, handles, foreign, call_vars>>

\* the table after the row of the file at pos is added to it
Inserted(table) ==
    add_transaction(table, mapping.account_id, NullId,
                    Normalize(csv_file[pos].row, mapping).amount_cents.v,
                    Normalize(csv_file[pos].row, mapping).occurred_on.v,
                    Normalize(csv_file[pos].row, mapping).desc)

\* ScanRow with the duplicate test on the table as it was when the scan began
ScanRow_snapshot ==
    /\ pc = "scan"
    /\ pos <= Len(csv_file)
    /\ ~csv_file[pos].err
    /\ Count([RowStep(csv_file[pos].row, ledger0, mapping, dry_run) EXCEPT
                 !.table = IF RowStep(csv_file[pos].row, ledger0, mapping, dry_run).tag
                                = "Accepted" /\ ~dry_run
                            THEN Inserted(ledger) ELSE ledger])
    /\ pos' = pos + 1
    /\ UNCHANGED <<csv_file, mapping, pc, op, dry_run, status, warning, raised,
                   ledger0, log, nops, answer, handles, foreign, call_vars>>

\* One iteration of the loop of _scan_full_file, with its try/except
ScanRow ==
    /\ pc = "scan"
    /\ pos <= Len(csv_file)
    /\ ~csv_file[pos].err
    /\ Count(RowStep(csv_file[pos].row, ledger, mapping, dry_run))
    /\ pos' = pos + 1
    /\ UNCHANGED <<csv_file, mapping, pc, op, dry_run, status, warning, raised,
                   ledger0, log, nops, answer, handles, foreign, call_vars>>

\* ScanRaise with the file left open when the exception leaves the scan
ScanRaise_leak ==
    /\ pc = "scan"
    /\ pos <= Len(csv_file)
    /\ csv_file[pos].err
    /\ pc' = "idle"
    /\ op' = "none"
    /\ raised' = TRUE
    /\ UNCHANGED <<csv_file, mapping, ledger, dry_run, pos, imported, skipped,
                   failed, errors, status, warning, outcomes, ledger0, log, nops,
                   answer, handles, storage, foreign, call_vars>>

\* The reader raises on the next line (csv.Error, UnicodeDecodeError): the
\* for statement is outside the try, the exception leaves the with statement,
\* which closes the file, and the handler
ScanRaise ==
    /\ pc = "scan"
    /\ pos <= Len(csv_file)
    /\ csv_file[pos].err
    /\ pc' = "idle"
    /\ op' = "none"
    /\ raised' = TRUE
    /\ handles' = handles - 1
    /\ UNCHANGED <<csv_file, mapping, ledger, dry_run, pos, imported, skipped,
                   failed, errors, status, warning, outcomes, ledger0, log, nops,
                   answer, storage, foreign, call_vars>>

Report(kind) ==
    [kind |-> kind, valid |-> imported, dup |-> skipped, failed |-> failed,
     errors |-> errors]

\* The loop ends, the with statement closes the file and _scan_full_file
\* returns; preview_import and the commit pass of import_csv show the report,
\* the dry-run pass of import_csv asks for confirmation
ScanReturn ==
    /\ pc = "scan"
    /\ pos > Len(csv_file)
    /\ handles' = handles - 1
    /\ log' = Append(log, [dry |-> dry_run, op |-> nops, outcomes |-> outcomes,
                           imported |-> imported, skipped |-> skipped,
                           failed |-> failed, errors |-> errors,
                           before |-> ledger0, after |-> ledger,
                           storage |-> storage])
    /\ IF op = "import" /\ dry_run
       THEN /\ pc' = "confirm"
            /\ UNCHANGED <<op, status>>
       ELSE /\ pc' = "idle"
            /\ op' = "none"
            /\ status' = Report(IF dry_run THEN "Preview" ELSE "Imported")
    /\ UNCHANGED <<csv_file, mapping, ledger, dry_run, pos, imported, skipped,
                   failed, errors, warning, raised, outcomes, ledger0, nops,
                   answer, storage, foreign, call_vars>>

\* import_csv: the caller answers Yes, the commit scan begins
ConfirmYes ==
    /\ pc = "confirm"
    /\ BeginScan(FALSE)
    /\ op' = IF HeaderRaises THEN "none" ELSE op
    /\ answer' = "Yes"
    /\ UNCHANGED <<csv_file, mapping, ledger, status, warning, log, nops, foreign,
                   call_vars>>

\* ConfirmNo going on to the commit scan
ConfirmNo_commits ==
    /\ pc = "confirm"
    /\ BeginScan(FALSE)
    /\ op' = IF HeaderRaises THEN "none" ELSE op
    /\ answer' = "No"
    /\ UNCHANGED <<csv_file, mapping, ledger, status, warning, log, nops, foreign,
                   call_vars>>

\* import_csv: the caller declines, the handler returns
ConfirmNo ==
    /\ pc = "confirm"
    /\ pc' = "idle"
    /\ op' = "none"
    /\ answer' = "No"
    /\ UNCHANGED <<csv_file, mapping, ledger, dry_run, pos, imported, skipped,
                   failed, errors, status, warning, raised, outcomes, ledger0,
                   log, nops, handles, storage, foreign, call_vars>>

\* bounds of the model: storage errors in one scan, inserts of other writers
MaxFaults == 1
MaxForeign == 1

FaultsMet == Cardinality({i \in 1..Len(storage) : storage[i].fault # "none"})

\* One iteration of the loop of _scan_full_file in which the storage raises
ScanRowFault(fault) ==
    /\ pc = "scan"
    /\ pos <= Len(csv_file)
    /\ ~csv_file[pos].err
    /\ FaultsMet < MaxFaults
    /\ ClassifyFault(Normalize(csv_file[pos].row, mapping), ledger, mapping,
                     dry_run, fault).fault # "none"
    /\ Count(ClassifyFault(Normalize(csv_file[pos].row, mapping), ledger, mapping,
                           dry_run, fault))
    /\ pos' = pos + 1
    /\ UNCHANGED <<csv_file, mapping, pc, op, dry_run, status, warning, raised,
                   ledger0, log, nops, answer, handles, foreign, call_vars>>

\* the records other writers insert
ForeignRecords == { Tx(0, 1, 3, 1250, tCoffee, tIso) }

\* Another connection to the database inserts a record and commits, between
\* two statements of the page
OtherWriter(rec) ==
    /\ Len(foreign) < MaxForeign
    /\ ledger' = add_transaction(ledger, rec.account_id, rec.category_id,
                                 rec.amount_cents, rec.occurred_on, rec.description)
    /\ foreign' = Append(foreign, [rec |-> rec, scans |-> Len(log), pc |-> pc,
                                   pos |-> pos])
    /\ UNCHANGED <<csv_file, mapping, pc, op, dry_run, pos, imported, skipped,
                   failed, errors, status, warning, raised, outcomes, ledger0, log,
                   nops, answer, handles, storage, call_vars>>

Next ==
    \/ preview_import
    \/ import_csv
    \/ ScanRow
    \/ ScanRaise
    \/ ScanReturn
    \/ ConfirmYes
    \/ ConfirmNo

----------------------------------------------------------------------------
(* Initial states                                                          *)

Init ==
    /\ \E c \in Configs :
          /\ csv_file = c[1]
          /\ mapping = c[2]
          /\ ledger = c[3]
          /\ ledger0 = c[3]
    /\ pc = "idle"
    /\ op = "none"
    /\ dry_run = TRUE
    /\ pos = 1
    /\ imported = 0
    /\ skipped = 0
    /\ failed = 0
    /\ errors = <<>>
    /\ status = NoStatus
    /\ warning = ""
    /\ raised = FALSE
    /\ outcomes = <<>>
    /\ log = <<>>
    /\ nops = 0
    /\ answer = "none"
    /\ handles = 0
    /\ storage = <<>>
    /\ foreign = <<>>
    /\ fn = "none"
    /\ arg = <<>>
    /\ ret = <<>>

Spec == Init /\ [][Next]_vars

\* The import page with storage errors and other writers
EnvShapes ==
    { Line(<<tIso, tCoffeePadded, tAmt, <<>>>>),
      Line(<<tIsoSlash, tCoffee, tAmtDollar, <<>>>>),
      Line(<<tBadDate, tCoffee, tAmt, <<>>>>) }

EnvFiles == {<<HeaderLine>> \o rows : rows \in SeqsUpTo(EnvShapes, MaxRows)}

EnvConfigs == EnvFiles \X {MapAmount} \X {<<>>}

InitEnv ==
    /\ \E c \in EnvConfigs :
          /\ csv_file = c[1]
          /\ mapping = c[2]
          /\ ledger = c[3]
          /\ ledger0 = c[3]
    /\ pc = "idle"
    /\ op = "none"
    /\ dry_run = TRUE
    /\ pos = 1
    /\ imported = 0
    /\ skipped = 0
    /\ failed = 0
    /\ errors = <<>>
    /\ status = NoStatus
    /\ warning = ""
    /\ raised = FALSE
    /\ outcomes = <<>>
    /\ log = <<>>
    /\ nops = 0
    /\ answer = "none"
    /\ handles = 0
    /\ storage = <<>>
    /\ foreign = <<>>
    /\ fn = "none"
    /\ arg = <<>>
    /\ ret = <<>>

NextEnv ==
    \/ preview_import
    \/ import_csv
    \/ ScanRow
    \/ \E fault \in Faults : ScanRowFault(fault)
    \/ \E rec \in ForeignRecords : OtherWriter(rec)
    \/ ScanReturn
    \/ ConfirmYes
    \/ ConfirmNo

SpecEnv == InitEnv /\ [][NextEnv]_vars

----------------------------------------------------------------------------
(* The functions of the page called on their own                           *)

\* cents_to_dollars_str of transactions_repo, on the int written as its sign
\* and the decimal digits of its absolute value: cents_abs // 100 is the
\* numeral without its last two digits, cents_abs % 100 with :02d is its last
\* two digits
cents_to_dollars_str(cents) ==
    (IF cents.neg THEN <<"-">> ELSE <<>>) \o <<"$">>
       \o (IF Len(cents.digits) <= 2 THEN <<"0">>
           ELSE SubSeq(cents.digits, 1, Len(cents.digits) - 2))
       \o <<".">>
       \o (IF Len(cents.digits) = 1 THEN <<"0">> \o cents.digits
           ELSE SubSeq(cents.digits, Len(cents.digits) - 1, Len(cents.digits)))

\* ---- arguments of _parse_date

\* days and months written in the slash dates
DayVals == {1, 2, 3, 4, 9, 12, 13, 29, 30, 31}

tYear == <<"2", "0", "2", "4">>

\* a/b/2024 with two-digit fields, and with fields without a leading zero
SlashDate(a, b, padded) ==
    (IF padded THEN TwoDigits(a) ELSE NatChars(a)) \o <<"/">>
       \o (IF padded THEN TwoDigits(b) ELSE NatChars(b)) \o <<"/">> \o tYear

SlashParts == DayVals \X DayVals \X BOOLEAN

\* dates with the name of the month; each is 4 March 2024 or 5 May 2024
NamedDates ==
    { <<"0", "4", "-", "M", "a", "r", "-", "2", "0", "2", "4">>,
      <<"0", "4", "-", "M", "a", "r", "c", "h", "-", "2", "0", "2", "4">>,
      <<"M", "a", "r", " ", "0", "4", " ", "2", "0", "2", "4">>,
      <<"m", "a", "r", "c", "h", " ", " ", "4", " ", "2", "0", "2", "4">>,
      <<"0", "5", "-", "M", "a", "y", "-", "2", "0", "2", "4">>,
      <<"M", "A", "Y", " ", "5", " ", "2", "0", "2", "4">> }

\* texts with a separator at the fifth and the eighth character, and others
IsoLikeDates ==
    { tIso, tIsoSlash,
      <<"2", "0", "2", "4", "-", "0", "2", "-", "3", "0">>,
      <<"2", "0", "2", "4", "-", "1", "3", "-", "4", "5">>,
      <<"2", "0", "2", "4", "-", "1", "3", "-", "4", "5", "x", "y", "z">>,
      <<"a", "b", "c", "d", "-", "e", "f", "-", "g", "h">>,
      <<"2", "0", "2", "4", "/", "0", "2", "/", "3", "0">>,
      <<"2", "0", "2", "4", "-", "0", "3", "-", "0", "4", "T", "1", "0", ":", "0", "0">>,
      <<"2", "0", "2", "4", "-", "0", "2", "-", "2", "9">>,
      <<"2", "0", "2", "3", "-", "0", "2", "-", "2", "9">>,
      <<>>, tBadDate }

DateArgs ==
    {SlashDate(p[1], p[2], p[3]) : p \in SlashParts} \cup NamedDates \cup IsoLikeDates

\* ---- arguments of _parse_amount_to_cents

\* the digits of an amount and its cents
AmountNums == { [text |-> <<"5">>, cents |-> 500], [text |-> tAmt, cents |-> 1250] }

\* marker texts, before or after the number
AmountMarkers ==
    { [text |-> <<>>, prefix |-> FALSE, debit |-> FALSE, credit |-> FALSE],
      [text |-> <<" ", "D", "R">>, prefix |-> FALSE, debit |-> TRUE, credit |-> FALSE],
      [text |-> <<"d", "r", " ">>, prefix |-> TRUE, debit |-> TRUE, credit |-> FALSE],
      [text |-> <<" ", "D", "e", "b", "i", "t">>, prefix |-> FALSE, debit |-> TRUE, credit |-> FALSE],
      [text |-> <<"W", "i", "t", "h", "d", "r", "a", "w", "a", "l", " ">>, prefix |-> TRUE, debit |-> TRUE, credit |-> FALSE],
      [text |-> <<" ", "C", "R">>, prefix |-> FALSE, debit |-> FALSE, credit |-> TRUE],
      [text |-> <<"c", "r", " ">>, prefix |-> TRUE, debit |-> FALSE, credit |-> TRUE],
      [text |-> <<"D", "e", "p", "o", "s", "i", "t", " ">>, prefix |-> TRUE, debit |-> FALSE, credit |-> TRUE],
      [text |-> <<" ", "D", "R", " ", "C", "R">>, prefix |-> FALSE, debit |-> TRUE, credit |-> TRUE],
      [text |-> <<"c", "r", "e", "d", "i", "t", " ", "d", "e", "b", "i", "t", " ">>, prefix |-> TRUE, debit |-> TRUE, credit |-> TRUE] }

AmountParts ==
    [wrapped : BOOLEAN, lead : {<<>>, <<"-">>, <<"+">>}, num : AmountNums,
     marker : AmountMarkers]

\* the token made of the parts: (marker lead number) or (lead number marker)
AmountToken(p) ==
    (IF p.wrapped THEN <<"(">> ELSE <<>>)
       \o (IF p.marker.prefix THEN p.marker.text \o p.lead \o p.num.text
           ELSE p.lead \o p.num.text \o p.marker.text)
       \o (IF p.wrapped THEN <<")">> ELSE <<>>)

\* amounts halfway between two cents: w.hh5, with and without a minus sign
HalfCentParts == [neg : BOOLEAN, whole : {0, 2}, hundredths : 0..99]

HalfCentToken(p) ==
    (IF p.neg THEN <<"-">> ELSE <<>>) \o NatChars(p.whole) \o <<".">>
       \o TwoDigits(p.hundredths) \o <<"5">>

AmountArgs ==
    {AmountToken(p) : p \in AmountParts}
       \cup {HalfCentToken(p) : p \in HalfCentParts}
       \cup {<<>>, tBadAmt, tAmtDollar, <<"a", "b", "c">>, <<"5", "D", "R">>, <<"-">>}

\* ---- arguments of _amount_from_row

DebitCells == { <<>>, <<" ">>, <<"5", ".", "0", "0">>, <<"-", "5", ".", "0", "0">>,
                tAmtParen, <<"5", ".", "0", "0", " ", "C", "R">>, <<"a", "b", "c">> }

CreditCells == { <<>>, tSeven, <<"-", "7">>, <<"7", " ", "D", "R">>, <<"x">> }

CallRows ==
    {<<tIso, tCoffee, d, c>> : d \in DebitCells, c \in CreditCells}
       \cup {<<tIso, tCoffee, d>> : d \in DebitCells}
       \cup {<<tIso, tCoffee>>, <<>>}

RowArgs ==
    [row : CallRows, amt_i : {Unset, 2, 4}, debit_i : {Unset, 2}, credit_i : {Unset, 3}]

\* ---- arguments of _transaction_exists

tNextDay == <<"2", "0", "2", "4", "-", "0", "3", "-", "0", "5">>
tCoffeeLower == <<"c", "o", "f", "f", "e", "e">>

CallTables ==
    { <<>>,
      << Tx(1, 1, NullId, 1250, tCoffee, tIso) >>,
      << Tx(1, 1, 3, 1250, NullText, tIso) >>,
      << Tx(1, 2, NullId, 1250, tCoffee, tIso), Tx(2, 1, NullId, -1250, tCoffeeLower, tNextDay) >> }

ExistsArgs ==
    [table : CallTables, account_id : {1, 2}, occurred_on : {tIso, tNextDay},
     amount_cents : {1250, -1250, 1251}, description : {tCoffee, tCoffeeLower, <<>>, tRent}]

\* ---- arguments of _set_mapping_options

hDebit == <<"D", "e", "b", "i", "t">>
hDebitAmount == <<"D", "e", "b", "i", "t", " ", "A", "m", "o", "u", "n", "t">>
hCreditAmount == <<"C", "r", "e", "d", "i", "t", " ", "A", "m", "o", "u", "n", "t">>
hPostingDate == <<"P", "o", "s", "t", "i", "n", "g", " ", "D", "a", "t", "e">>
hValueDate == <<"V", "a", "l", "u", "e", " ", "D", "a", "t", "e">>
hMemo == <<"M", "E", "M", "O">>
hBalance == <<"B", "a", "l", "a", "n", "c", "e">>
hTotal == <<"T", "o", "t", "a", "l">>

HeaderCells ==
    { hDate, hDesc, hAmount, hCredit, hDebit, hDebitAmount, hPostingDate,
      hValueDate, hMemo, hBalance, hTotal, <<>> }

\* bound of the model: cells of a header row built from HeaderCells
MaxHeaderCells == 2

HeaderArgs ==
    SeqsUpTo(HeaderCells, MaxHeaderCells)
       \cup { <<hDate, hDesc, hAmount, hCredit>>,
              <<hDate, hDesc, hDebitAmount, hCreditAmount>>,
              <<hPostingDate, hDate, hMemo>>,
              <<hBalance, hPostingDate, hDesc, hTotal, hAmount>>,
              <<hValueDate, hMemo, hDebit, hCredit>> }

\* the mappings the combos hold before the call
PriorMappings == {MapAmount, MapDebitCredit, Mapping(Unset, Unset, Unset, Unset, Unset, NullId)}

\* ---- _read_csv_preview and its arguments

\* limit of the preview read in choose_csv
PreviewLimit == 200

\* the lines _read_csv_preview reads: all of them, or the header and the
\* first limit data lines when the file has more (limit >= 1)
LinesRead(file, limit) ==
    IF Len(file) > limit + 1 THEN SubSeq(file, 1, limit + 1) ELSE file

\* ImportPage._read_csv_preview once the file is open: the headers and the
\* rows, or an error of the reader on a line it reads
_read_csv_preview(file, limit) ==
    IF \E i \in 1..Len(LinesRead(file, limit)) : file[i].err
    THEN [ok |-> FALSE, headers |-> <<>>, rows |-> <<>>]
    ELSE [ok |-> TRUE,
          headers |-> IF file = <<>> THEN <<>> ELSE file[1].row,
          rows |-> [i \in 1..(Len(LinesRead(file, limit)) - 1) |-> file[i + 1].row]]

PreviewArgs == [file : Files, limit : {1, PreviewLimit}]

\* ---- arguments of cents_to_dollars_str

\* bound of the model: the amounts up to this many cents are all tried
MaxCents == 120

CentsArgs ==
    { [neg |-> c < 0, digits |-> NatChars(Abs(c))] : c \in (-MaxCents)..MaxCents }
       \cup [neg : BOOLEAN,
             digits : { <<"2", "1", "4", "7", "4", "8", "3", "6", "4", "7">>, <<"3", "7", "9", "2", "0", "2", "0", "0", "5", "1", "4", "8", "9", "0", "8", "7">>, <<"4", "6", "1", "9", "5", "0", "1", "9", "0", "2", "3", "4", "3", "7", "8", "3", "6">>, <<"9", "0", "0", "7", "1", "9", "9", "2", "5", "4", "7", "4", "0", "9", "9", "3">>,
                        <<"1", "0", "0", "0", "0", "0", "0", "0", "0", "0", "0", "0", "0", "0", "0", "0", "0", "0">> }]

Calls ==
    [fn : {"_parse_date"}, arg : DateArgs]
       \cup [fn : {"_parse_amount_to_cents"}, arg : AmountArgs]
       \cup [fn : {"_amount_from_row"}, arg : RowArgs]
       \cup [fn : {"_transaction_exists"}, arg : ExistsArgs]
       \cup [fn : {"cents_to_dollars_str"}, arg : CentsArgs]
       \cup [fn : {"_set_mapping_options"}, arg : HeaderArgs]
       \cup [fn : {"_read_csv_preview"}, arg : PreviewArgs]

Returns(name, result) ==
    /\ fn = name
    /\ ret = <<>>
    /\ ret' = <<result>>
    /\ UNCHANGED <<fn, arg, page_vars>>

Call_parse_date == Returns("_parse_date", _parse_date(arg))

Call_parse_amount_to_cents ==
    Returns("_parse_amount_to_cents", _parse_amount_to_cents(arg))

Call_amount_from_row ==
    Returns("_amount_from_row",
            _amount_from_row(arg.row, arg.amt_i, arg.debit_i, arg.credit_i))

Call_transaction_exists ==
    Returns("_transaction_exists",
            _transaction_exists(arg.table, arg.account_id, arg.occurred_on,
                                arg.amount_cents, arg.description))

\* cents_to_dollars_str, and amount normalization of the text it returns
Call_cents_to_dollars_str ==
    Returns("cents_to_dollars_str",
            [text |-> cents_to_dollars_str(arg),
             back |-> AmountOf(cents_to_dollars_str(arg))])

\* _set_mapping_options fills the combos and returns None
Call_set_mapping_options ==
    /\ fn = "_set_mapping_options"
    /\ ret = <<>>
    /\ mapping' = _set_mapping_options(arg, mapping)
    /\ ret' = <<"None">>
    /\ UNCHANGED <<fn, arg, csv_file, ledger, pc, op, dry_run, pos, imported,
                   skipped, failed, errors, status, warning, raised, outcomes,
                   ledger0, log, nops, answer, handles, storage, foreign>>

\* Call_read_csv_preview with the file left open when the reader raises
Call_read_csv_preview_leak ==
    /\ fn = "_read_csv_preview"
    /\ ret = <<>>
    /\ ret' = <<_read_csv_preview(arg.file, arg.limit)>>
    /\ handles' = IF _read_csv_preview(arg.file, arg.limit).ok
                   THEN handles ELSE handles + 1
    /\ UNCHANGED <<fn, arg, csv_file, mapping, ledger, pc, op, dry_run, pos,
                   imported, skipped, failed, errors, status, warning, raised,
                   outcomes, ledger0, log, nops, answer, storage, foreign>>

\* _read_csv_preview: the with statement opens the file and closes it when
\* the block is left, by the return or by an error of the reader
Call_read_csv_preview ==
    /\ fn = "_read_csv_preview"
    /\ ret = <<>>
    /\ ret' = <<_read_csv_preview(arg.file, arg.limit)>>
    /\ handles' = (handles + 1) - 1
    /\ UNCHANGED <<fn, arg, csv_file, mapping, ledger, pc, op, dry_run, pos,
                   imported, skipped, failed, errors, status, warning, raised,
                   outcomes, ledger0, log, nops, answer, storage, foreign>>

NextCall ==
    \/ Call_parse_date
    \/ Call_parse_amount_to_cents
    \/ Call_amount_from_row
    \/ Call_transaction_exists
    \/ Call_cents_to_dollars_str
    \/ Call_set_mapping_options
    \/ Call_read_csv_preview

InitCall ==
    /\ \E c \in Calls : fn = c.fn /\ arg = c.arg
    /\ ret = <<>>
    /\ csv_file = <<>>
    /\ mapping \in (IF fn = "_set_mapping_options" THEN PriorMappings ELSE {MapAmount})
    /\ ledger = <<>>
    /\ ledger0 = <<>>
    /\ pc = "idle"
    /\ op = "none"
    /\ dry_run = TRUE
    /\ pos = 1
    /\ imported = 0
    /\ skipped = 0
    /\ failed = 0
    /\ errors = <<>>
    /\ status = NoStatus
    /\ warning = ""
    /\ raised = FALSE
    /\ outcomes = <<>>
    /\ log = <<>>
    /\ nops = 0
    /\ answer = "none"
    /\ handles = 0
    /\ storage = <<>>
    /\ foreign = <<>>

SpecCall == InitCall /\ [][NextCall]_vars

\* the import page and the functions called on their own
InitAll == Init \/ InitCall

\* the handlers and the calls run on one thread, one at a time
NextAll ==
    \/ fn = "none" /\ preview_import
    \/ fn = "none" /\ import_csv
    \/ fn = "none" /\ ScanRow
    \/ fn = "none" /\ ScanRaise
    \/ fn = "none" /\ ScanReturn
    \/ fn = "none" /\ ConfirmYes
    \/ fn = "none" /\ ConfirmNo
    \/ NextCall

SpecAll == InitAll /\ [][NextAll]_vars

----------------------------------------------------------------------------
(* Properties                                                              *)

\* the data rows of the file: every line after the header
DataRows == IF Len(csv_file) <= 1 THEN <<>> ELSE Tail(csv_file)

Scans == 1..Len(log)

\* the positions of seq that hold one of tags
Positions(seq, tags) == {i \in 1..Len(seq) : seq[i] \in tags}

\* the elements of seq at the positions in keep, in order
RECURSIVE Pick(_, _, _)
Pick(seq, keep, i) ==
    IF i > Len(seq) THEN <<>>
    ELSE (IF i \in keep THEN <<seq[i]>> ELSE <<>>) \o Pick(seq, keep, i + 1)

\* the tags a scan of lines gives from table on
RECURSIVE TagsFrom(_, _, _, _)
TagsFrom(lines, table, map, dry) ==
    IF lines = <<>> THEN <<>>
    ELSE <<RowStep(Head(lines).row, table, map, dry).tag>>
         \o TagsFrom(Tail(lines), RowStep(Head(lines).row, table, map, dry).table, map, dry)

\* the record a commit scan stores for a row
RecordOf(n, id) ==
    [id |-> id, account_id |-> mapping.account_id, category_id |-> NullId,
     amount_cents |-> n.amount_cents.v, description |-> n.desc,
     occurred_on |-> n.occurred_on.v]

\* the message of the error a row raises in normalization
FailMsg(n) == IF ~n.occurred_on.ok THEN n.occurred_on.msg ELSE n.amount_cents.msg

\* C1: after a commit scan has returned, a later commit scan of the same file
\* accepts nothing, inserts nothing, and tags Duplicate every row the earlier
\* scan tagged Accepted or Duplicate.
C1_CommitIdempotent ==
    \A i, j \in Scans :
        (i < j /\ ~log[i].dry /\ ~log[j].dry) =>
            /\ log[j].imported = 0
            /\ log[j].after = log[j].before
            /\ \A r \in Positions(log[i].outcomes, {"Accepted", "Duplicate"}) :
                   log[j].outcomes[r] = "Duplicate"

C1_Witness ==
    \E i, j \in Scans :
        /\ i < j /\ ~log[i].dry /\ ~log[j].dry
        /\ log[i].imported >= 2
        /\ log[j].skipped >= 2

\* C2: a dry-run scan and the commit scan that follows it in import_csv give
\* every row the same tag.
C2_DryRunMatchesCommit ==
    \A k \in Scans :
        (k + 1 \in Scans /\ log[k].dry /\ ~log[k + 1].dry /\ log[k].op = log[k + 1].op)
            => log[k].outcomes = log[k + 1].outcomes

\* C3: a dry-run scan, in preview_import and in import_csv, leaves the ledger
\* as it was when the scan began.
C3_DryRunLeavesLedger ==
    /\ (pc = "scan" /\ dry_run) => ledger = ledger0
    /\ \A k \in Scans : log[k].dry => log[k].after = log[k].before

C3_Witness ==
    \E k \in Scans : log[k].dry /\ log[k].imported >= 1 /\ log[k].before # <<>>

\* C4: every step of the import page keeps the ledger rows it found, in place
\* and unchanged: the ledger only grows at its end.
C4_OnlyAppends ==
    [][/\ Len(ledger') >= Len(ledger)
       /\ SubSeq(ledger', 1, Len(ledger)) = ledger]_vars

C4_Witness ==
    /\ pc = "scan" /\ ~dry_run
    /\ ledger0 # <<>>
    /\ Len(ledger) > Len(ledger0)

\* C5: a commit scan adds one record per Accepted row and nothing else, in row
\* order, each with the selected account, no category, and the date, the
\* amount and the stripped description of its row.
C5_CommitInsertsAccepted ==
    \A k \in Scans :
        ~log[k].dry =>
            LET acc == Pick(DataRows, Positions(log[k].outcomes, {"Accepted"}), 1)
                n0  == Len(log[k].before)
            IN  /\ Len(log[k].after) = n0 + log[k].imported
                /\ Len(acc) = log[k].imported
                /\ SubSeq(log[k].after, 1, n0) = log[k].before
                /\ \A j \in 1..Len(acc) :
                       log[k].after[n0 + j] =
                           RecordOf(Normalize(acc[j].row, mapping),
                                    log[k].after[n0 + j].id)
                /\ \A j \in 1..Len(acc) :
                       /\ log[k].after[n0 + j].id > MaxId(SubSeq(log[k].after, 1, n0 + j - 1))
                       /\ (acc[j].row = <<tIso, tCoffeePadded, tAmt, <<>>>> /\ mapping = MapAmount)
                              => /\ log[k].after[n0 + j].description = tCoffee
                                 /\ log[k].after[n0 + j].amount_cents = 1250
                                 /\ log[k].after[n0 + j].occurred_on = tIso

C5_Witness ==
    \E k \in Scans :
        /\ ~log[k].dry
        /\ log[k].imported = 1
        /\ Len(log[k].outcomes) = 2
        /\ log[k].outcomes[1] # "Accepted"
        /\ DataRows[2].row = <<tIso, tCoffeePadded, tAmt, <<>>>>
        /\ mapping = MapAmount

\* C6: a row that fails normalization is tagged Failed and the scan goes on:
\* every row of the file is tagged, and the other rows get the tags a scan of
\* the file without the failed rows gives them.
C6_FailedRowIsolated ==
    \A k \in Scans :
        /\ Len(log[k].outcomes) = Len(DataRows)
        /\ \A r \in 1..Len(DataRows) :
               (log[k].outcomes[r] = "Failed") <=>
                   (~Normalize(DataRows[r].row, mapping).occurred_on.ok
                       \/ ~Normalize(DataRows[r].row, mapping).amount_cents.ok)
        /\ Pick(log[k].outcomes, Positions(log[k].outcomes, {"Accepted", "Duplicate"}), 1)
             = TagsFrom(Pick(DataRows, Positions(log[k].outcomes, {"Accepted", "Duplicate"}), 1),
                        log[k].before, mapping, log[k].dry)

C6_Witness ==
    \E k \in Scans :
        /\ Len(log[k].outcomes) = 2
        /\ log[k].outcomes[1] = "Failed"
        /\ log[k].outcomes[2] = "Accepted"
        /\ ~log[k].dry

\* C7: once the mapping is valid, no exception leaves a scan.
C7_NoErrorEscapes == ~raised

\* C8: every scan tags each data row once and never the header: its three
\* counts are the numbers of rows with each tag, they add up to the number of
\* data rows, and nothing is carried over from the scan before.
C8_OneOutcomePerRow ==
    /\ pc = "scan" =>
           /\ Len(outcomes) = pos - 2
           /\ imported + skipped + failed = pos - 2
    /\ \A k \in Scans :
           /\ Len(log[k].outcomes) = Len(DataRows)
           /\ log[k].imported = Cardinality(Positions(log[k].outcomes, {"Accepted"}))
           /\ log[k].skipped = Cardinality(Positions(log[k].outcomes, {"Duplicate"}))
           /\ log[k].failed = Cardinality(Positions(log[k].outcomes, {"Failed"}))
           /\ log[k].imported + log[k].skipped + log[k].failed = Len(DataRows)

C8_Witness ==
    /\ Len(log) >= 3
    /\ Len(DataRows) = 2
    /\ log[1].failed = 1
    /\ log[3].failed = 1
    /\ log[3].skipped = 1

\* C9: a report holds the messages of the first min(MaxErrors, failed_count)
\* failed rows of its scan, in row order, and failed_count counts every failed
\* row.
C9_FirstErrors ==
    \A k \in Scans :
        LET bad  == Pick(DataRows, Positions(log[k].outcomes, {"Failed"}), 1)
            keep == IF Len(bad) < MaxErrors THEN Len(bad) ELSE MaxErrors
        IN  /\ log[k].failed = Len(bad)
            /\ Len(log[k].errors) = keep
            /\ Len(log[k].errors) <= MaxErrors
            /\ \A j \in 1..keep :
                   log[k].errors[j] = FailMsg(Normalize(bad[j].row, mapping))

C9_Witness ==
    \E k \in Scans :
        /\ log[k].failed > MaxErrors
        /\ Len(log[k].errors) = MaxErrors
        /\ log[k].errors[1] # log[k].errors[2]
        /\ log[k].imported >= 1

\* C10: the validation passes exactly when the date role, the description
\* role and one of the amount, debit and credit roles are set and an account
\* is selected; a scan begins only then.
MappingComplete ==
    /\ mapping.d_i # Unset
    /\ mapping.s_i # Unset
    /\ mapping.amt_i # Unset \/ mapping.debit_i # Unset \/ mapping.credit_i # Unset
    /\ mapping.account_id # NullId

C10_ValidateMapping ==
    /\ nops > 0 => ((warning = "") <=> MappingComplete)
    /\ (pc # "idle" \/ log # <<>>) => MappingComplete

C10_Witness ==
    /\ nops > 0
    /\ warning = ""
    /\ mapping.amt_i = Unset
    /\ mapping.debit_i = Unset
    /\ mapping.credit_i # Unset
    /\ log # <<>>

\* C11: with an invalid mapping no handler reads a line of the file, queries
\* or writes the ledger, or reports: it only shows one warning and returns.
C11_InvalidMappingReadsNothing ==
    ~MappingComplete =>
        /\ pc = "idle"
        /\ op = "none"
        /\ pos = 1
        /\ ~raised
        /\ outcomes = <<>>
        /\ imported + skipped + failed = 0
        /\ log = <<>>
        /\ status = NoStatus
        /\ ledger = ledger0
        /\ nops > 0 => warning \in {"Please choose Date, Desc, and an Account.",
                                    "Choose Amount, or Debit/Credit columns."}

C11_Witness ==
    /\ ~MappingComplete
    /\ mapping.d_i # Unset /\ mapping.s_i # Unset /\ mapping.account_id # NullId
    /\ nops = MaxOps
    /\ Len(csv_file) >= 2
    /\ warning # ""

\* C12: at every point of a commit scan the ledger is the ledger the scan
\* began with followed by one record for each row already tagged Accepted, in
\* row order, and nothing for the rows not yet read; a failed row removes
\* nothing.
C12_CommitPerRow ==
    (pc = "scan" /\ ~dry_run) =>
        LET acc == Pick(SubSeq(DataRows, 1, Len(outcomes)),
                        Positions(outcomes, {"Accepted"}), 1)
            n0  == Len(ledger0)
        IN  /\ Len(outcomes) = pos - 2
            /\ Len(ledger) = n0 + Len(acc)
            /\ SubSeq(ledger, 1, n0) = ledger0
            /\ \A j \in 1..Len(acc) :
                   ledger[n0 + j] =
                       RecordOf(Normalize(acc[j].row, mapping), ledger[n0 + j].id)

C12_Witness ==
    /\ pc = "scan" /\ ~dry_run
    /\ pos <= Len(csv_file)
    /\ Len(outcomes) >= 4
    /\ outcomes[3] = "Accepted"
    /\ outcomes[4] = "Failed"
    /\ Len(ledger) = Len(ledger0) + 1

\* C14: in import_csv the ledger changes only inside the commit scan, which
\* runs only after the validation passed, the dry-run scan of the same
\* handler returned and the caller answered Yes; after the answer No the
\* ledger is the one the handler found.
C14_InsertOnlyAfterYes ==
    /\ [][ledger' # ledger =>
            /\ pc = "scan" /\ ~dry_run
            /\ op = "import"
            /\ answer = "Yes"
            /\ MappingComplete
            /\ log # <<>>
            /\ log[Len(log)].dry
            /\ log[Len(log)].op = nops]_vars
    /\ [](answer = "No" =>
            /\ pc = "idle"
            /\ log[Len(log)].dry
            /\ log[Len(log)].op = nops
            /\ ledger = log[Len(log)].before)

C14_Witness ==
    /\ answer = "No"
    /\ Len(log) = 2
    /\ log[2].imported >= 1
    /\ log[2].skipped >= 1
    /\ ledger # <<>>

\* the four fields the duplicate test compares, a stored NULL description
\* read as the empty text
MatchKey(r) ==
    <<r.account_id, r.occurred_on, r.amount_cents,
      IF r.description = NullText THEN <<>> ELSE r.description>>

\* C13: _transaction_exists is true exactly when a row of the table has the
\* account, the date, the cents and the description (NULL as empty) of the
\* candidate; a row that differs in one of the four, be it only in the case of
\* a letter or only in the account, does not match.
C13_DuplicateDetectorExact ==
    (fn = "_transaction_exists" /\ ret # <<>>) =>
        /\ ret[1] \in BOOLEAN
        /\ ret[1] <=> (MatchKey(arg) \in {MatchKey(arg.table[i]) : i \in 1..Len(arg.table)})
        /\ (arg.table = << Tx(1, 1, NullId, 1250, tCoffee, tIso) >>)
              => (ret[1] <=> /\ arg.account_id = 1
                             /\ arg.occurred_on = tIso
                             /\ arg.amount_cents = 1250
                             /\ arg.description = tCoffee)

\* a match on a stored NULL description, and a miss by letter case only
C13_Witness ==
    /\ fn = "_transaction_exists" /\ ret # <<>>
    /\ \/ /\ ret[1]
          /\ arg.description = <<>>
          /\ arg.table[1].description = NullText
       \/ /\ ~ret[1]
          /\ arg.description = tCoffeeLower
          /\ arg.table = << Tx(1, 1, NullId, 1250, tCoffee, tIso) >>
          /\ arg.account_id = 1 /\ arg.occurred_on = tIso /\ arg.amount_cents = 1250

\* C15: for every int cents, amount normalization of cents_to_dollars_str(cents)
\* gives cents back: the same magnitude, and the same sign unless it is zero.
C15_AmountRoundTrip ==
    (fn = "cents_to_dollars_str" /\ ret # <<>>) =>
        /\ ret[1].back.ok
        /\ ret[1].back.mag = BigOfDigits(arg.digits)
        /\ ret[1].back.mag # <<>> => (ret[1].back.sign = -1 <=> arg.neg)

\* the same round trip for the amounts of at most ten digits of cents
SmallAmountRoundTrip ==
    (fn = "cents_to_dollars_str" /\ ret # <<>> /\ Len(arg.digits) <= 10) =>
        /\ ret[1].back.ok
        /\ ret[1].back.mag = BigOfDigits(arg.digits)
        /\ ret[1].back.mag # <<>> => (ret[1].back.sign = -1 <=> arg.neg)

\* the sign the precedence gives a token made of the parts p
SignByPrecedence(p) ==
    IF p.lead = <<"-">> THEN -1
    ELSE IF p.marker.credit THEN 1
    ELSE IF p.marker.debit THEN -1
    ELSE IF p.wrapped THEN -1
    ELSE 1

IsoOf(m, d) == tYear \o <<"-">> \o TwoDigits(m) \o <<"-">> \o TwoDigits(d)

\* month m of 2024 has a day d
InCalendar(m, d) == m \in 1..12 /\ d \in 1..DaysInMonth(2024, m)

\* C17: the formats are tried in the order of the list and the first that
\* parses gives the result: a/b/2024 is month a, day b whenever that is a
\* date, and day a, month b only when it is not; the texts of the other
\* formats give their date.
C17_FormatOrder ==
    (fn = "_parse_date" /\ ret # <<>>) =>
        /\ \A p \in SlashParts :
               arg = SlashDate(p[1], p[2], p[3]) =>
                   ret[1] = IF InCalendar(p[1], p[2]) THEN OkVal(IsoOf(p[1], p[2]))
                            ELSE IF InCalendar(p[2], p[1]) THEN OkVal(IsoOf(p[2], p[1]))
                            ELSE ErrVal("Unrecognized date: ", arg)
        /\ arg \in {tIso, tIsoSlash} => ret[1] = OkVal(tIso)
        /\ arg \in NamedDates => ret[1] \in {OkVal(IsoOf(3, 4)), OkVal(IsoOf(5, 5))}

\* 03/04/2024 is 4 March
C17_Witness ==
    /\ fn = "_parse_date" /\ ret # <<>>
    /\ arg = SlashDate(3, 4, TRUE)
    /\ ret[1] = OkVal(tIso)

\* s is a calendar date written YYYY-MM-DD
IsCanonicalDate(s) ==
    /\ Len(s) = 10
    /\ s[5] = "-" /\ s[8] = "-"
    /\ AllDigits(SubSeq(s, 1, 4)) /\ AllDigits(SubSeq(s, 6, 7)) /\ AllDigits(SubSeq(s, 9, 10))
    /\ ValidDate(DigitsVal(SubSeq(s, 1, 4)), DigitsVal(SubSeq(s, 6, 7)),
                 DigitsVal(SubSeq(s, 9, 10)))

\* C18: whatever the text, _parse_date raises or returns a calendar date
\* written YYYY-MM-DD, also when only the last test of the function accepts
\* the text.
C18_CanonicalDate ==
    (fn = "_parse_date" /\ ret # <<>> /\ ret[1].ok) => IsCanonicalDate(ret[1].v)

\* the stripped cell i of the row, empty when the role is unset or the row is
\* too short
CellText(row, i) == IF i # Unset /\ i < Len(row) THEN Strip(Cell(row, i)) ELSE <<>>

IsMissingAmount(r) == ~r.ok /\ r.msg[1] \in {"Missing amount", "Missing amount (no debit/credit)"}

\* C19: with the amount role set, the amount is the normalization of the
\* amount cell and of nothing else; a row too short to have the cell fails
\* with a missing amount, whatever its debit and credit cells hold.
C19_AmountColumnFirst ==
    (fn = "_amount_from_row" /\ ret # <<>> /\ arg.amt_i # Unset) =>
        IF arg.amt_i < Len(arg.row)
        THEN ret[1] = _parse_amount_to_cents(Cell(arg.row, arg.amt_i))
        ELSE IsMissingAmount(ret[1])

\* the same for the rows that have the amount cell
AmountColumnFirstWhenPresent ==
    (fn = "_amount_from_row" /\ ret # <<>> /\ arg.amt_i # Unset /\ arg.amt_i < Len(arg.row)) =>
        ret[1] = _parse_amount_to_cents(Cell(arg.row, arg.amt_i))

\* C20: without an amount cell, a debit text that is not empty gives minus the
\* absolute value of its amount, or its error, and the credit text is not
\* looked at; else a credit text that is not empty gives the absolute value of
\* its amount, or its error; else the row fails with a missing amount.
C20_DebitCredit ==
    (fn = "_amount_from_row" /\ ret # <<>> /\ ~(arg.amt_i # Unset /\ arg.amt_i < Len(arg.row))) =>
        LET debit  == CellText(arg.row, arg.debit_i)
            credit == CellText(arg.row, arg.credit_i)
        IN  IF debit # <<>>
            THEN /\ ret[1].ok = _parse_amount_to_cents(debit).ok
                 /\ ret[1].ok => /\ ret[1].v = -Abs(_parse_amount_to_cents(debit).v)
                                 /\ ret[1].v <= 0
                 /\ ~ret[1].ok => ret[1].msg = _parse_amount_to_cents(debit).msg
            ELSE IF credit # <<>>
            THEN /\ ret[1].ok = _parse_amount_to_cents(credit).ok
                 /\ ret[1].ok => /\ ret[1].v = Abs(_parse_amount_to_cents(credit).v)
                                 /\ ret[1].v >= 0
                 /\ ~ret[1].ok => ret[1].msg = _parse_amount_to_cents(credit).msg
            ELSE IsMissingAmount(ret[1])

\* a debit cell "5.00 CR" beside a credit cell "-7": -500
C20_Witness ==
    /\ fn = "_amount_from_row" /\ ret # <<>>
    /\ arg.amt_i = Unset /\ arg.debit_i = 2 /\ arg.credit_i = 3
    /\ Len(arg.row) = 4
    /\ arg.row[3] = <<"5", ".", "0", "0", " ", "C", "R">>
    /\ arg.row[4] = <<"-", "7">>
    /\ ret[1] = OkVal(-500)

\* C21: an amount halfway between two cents is rounded away from zero: the
\* cents of w.hh5 are 100 w + hh + 1, with the sign of the token (0.125 is 13,
\* 0.135 is 14, 2.675 is 268).
C21_HalfAwayFromZero ==
    (fn = "_parse_amount_to_cents" /\ ret # <<>>) =>
        \A p \in HalfCentParts :
            arg = HalfCentToken(p) =>
                ret[1] = OkVal((IF p.neg THEN -1 ELSE 1)
                                  * (100 * p.whole + p.hundredths + 1))

\* the same amounts are rounded to one of the two nearest cents
HalfCentNearest ==
    (fn = "_parse_amount_to_cents" /\ ret # <<>>) =>
        \A p \in HalfCentParts :
            arg = HalfCentToken(p) =>
                /\ ret[1].ok
                /\ Abs(ret[1].v) \in {100 * p.whole + p.hundredths,
                                      100 * p.whole + p.hundredths + 1}
                /\ ret[1].v # 0 => ((ret[1].v < 0) <=> p.neg)

\* the header cells, by zero-based index, that hold a keyword of the list
Matching(headers, keywords) ==
    {i \in 0..(Len(headers) - 1) : HasKeyword(Cell(headers, i), keywords)}

\* the left-most of them, Unset when there is none
LeftMost(S) == IF S = {} THEN Unset ELSE CHOOSE i \in S : \A j \in S : i <= j

\* C22: column inference sets each role to the left-most header cell whose
\* lowercased text holds a keyword of the role, and leaves it unset when no
\* cell does; what the combos held before does not matter, and the account is
\* kept.
C22_LeftMostMatch ==
    (fn = "_set_mapping_options" /\ ret # <<>>) =>
        /\ mapping.d_i = LeftMost(Matching(arg, DateKeywords))
        /\ mapping.s_i = LeftMost(Matching(arg, DescKeywords))
        /\ mapping.amt_i = LeftMost(Matching(arg, AmountKeywords))
        /\ mapping.debit_i = LeftMost(Matching(arg, DebitKeywords))
        /\ mapping.credit_i = LeftMost(Matching(arg, CreditKeywords))
        /\ mapping.account_id \in {NullId, 1}
        /\ arg = <<hBalance, hPostingDate, hDesc, hTotal, hAmount>> =>
               /\ mapping.d_i = 1 /\ mapping.s_i = 2 /\ mapping.amt_i = 3
               /\ mapping.debit_i = Unset /\ mapping.credit_i = Unset
        /\ arg = <<>> =>
               /\ mapping.d_i = Unset /\ mapping.s_i = Unset /\ mapping.amt_i = Unset
               /\ mapping.debit_i = Unset /\ mapping.credit_i = Unset

\* "Posting Date", "Date", "MEMO": the date role is the first cell, and the
\* amount role, set before the call, is unset after it
C22_Witness ==
    /\ fn = "_set_mapping_options" /\ ret # <<>>
    /\ arg = <<hPostingDate, hDate, hMemo>>
    /\ mapping = Mapping(0, 2, Unset, Unset, Unset, 1)

\* C30: column inference never gives one header cell to two roles.
C30_RolesDisjoint ==
    (fn = "_set_mapping_options" /\ ret # <<>>) =>
        LET roles == <<mapping.d_i, mapping.s_i, mapping.amt_i, mapping.debit_i,
                       mapping.credit_i>>
        IN  \A a, b \in 1..5 : (a # b /\ roles[a] # Unset) => roles[a] # roles[b]

\* the number of rows tagged Failed among the first r
FailedUpTo(outs, r) == Cardinality({i \in 1..r : outs[i] = "Failed"})

\* the message a report keeps for row r of scan k is msg, when it keeps one
KeptMessage(k, r, msg) ==
    FailedUpTo(log[k].outcomes, r) <= MaxErrors =>
        log[k].errors[FailedUpTo(log[k].outcomes, r)] = msg

\* C27: a row too short to hold the date cell is Failed with the missing-date
\* message; a row that holds the date cell but not the description cell is
\* processed with the empty description: it fails only when its date or its
\* amount fails, with that message, and a commit scan that accepts it stores
\* the empty description.
C27_ShortRow ==
    \A k \in Scans : \A r \in 1..Len(DataRows) :
        LET row == DataRows[r].row
            out == log[k].outcomes[r]
        IN  /\ mapping.d_i >= Len(row) =>
                   /\ out = "Failed"
                   /\ KeptMessage(k, r, <<"Missing date", <<>>>>)
            /\ (mapping.d_i < Len(row) /\ mapping.s_i >= Len(row)) =>
                   LET d == _parse_date(Cell(row, mapping.d_i))
                       a == _amount_from_row(row, mapping.amt_i, mapping.debit_i,
                                             mapping.credit_i)
                   IN  /\ (out = "Failed") <=> (~d.ok \/ ~a.ok)
                       /\ out = "Failed" =>
                              KeptMessage(k, r, IF ~d.ok THEN d.msg ELSE a.msg)
                       /\ (out = "Accepted" /\ ~log[k].dry) =>
                              \E i \in (Len(log[k].before) + 1)..Len(log[k].after) :
                                  /\ log[k].after[i].description = <<>>
                                  /\ log[k].after[i].occurred_on = d.v
                                  /\ log[k].after[i].amount_cents = a.v

\* a commit scan accepts a row without its description cell and stores it
\* with the empty description, and fails a row without cells
C27_Witness ==
    /\ Len(log) = 2 /\ ~log[2].dry
    /\ mapping = MapDescLast
    /\ Len(DataRows) = 2
    /\ DataRows[1].row = <<tIso, tCoffee, tAmt>>
    /\ DataRows[2].row = <<>>
    /\ log[2].outcomes = <<"Accepted", "Failed">>
    /\ log[2].errors = << <<"Missing date", <<>>>> >>
    /\ Len(ledger) = 1
    /\ ledger[1].description = <<>>
    /\ ledger[1].amount_cents = 1250

\* C24: the file is open only inside a scan: whenever a scan or the preview
\* read has returned or raised, on whatever path, and whenever no scan is
\* running, no handle is open.
C24_HandleClosed ==
    /\ handles = (IF pc = "scan" THEN 1 ELSE 0)
    /\ raised => handles = 0
    /\ log # <<>> /\ pc # "scan" => handles = 0
    /\ (fn = "_read_csv_preview" /\ ret # <<>>) => handles = 0

\* a scan that raised on a line after its first data row
C24_Witness ==
    /\ raised
    /\ pos > 2
    /\ outcomes # <<>>
    /\ handles = 0

\* the preview read closes the file when the reader raises and when it
\* stops at its limit
PreviewReadCloses ==
    (fn = "_read_csv_preview" /\ ret # <<>>) =>
        /\ handles = 0
        /\ ret[1].ok => Len(ret[1].rows) <= arg.limit

\* the normalization of data row r of the file succeeds
RowOk(r) ==
    /\ Normalize(DataRows[r].row, mapping).occurred_on.ok
    /\ Normalize(DataRows[r].row, mapping).amount_cents.ok

\* the account, date, amount and description of data row r
RowKey(r) ==
    <<mapping.account_id, Normalize(DataRows[r].row, mapping).occurred_on.v,
      Normalize(DataRows[r].row, mapping).amount_cents.v,
      Normalize(DataRows[r].row, mapping).desc>>

\* no two records of the table have the same account, date, amount and
\* description
NoDupKeys(table) ==
    \A i, j \in 1..Len(table) : i # j => MatchKey(table[i]) # MatchKey(table[j])

\* C26: in a commit scan a row with the account, date, amount and description
\* of an earlier row the same scan accepted is tagged Duplicate, and the
\* records the scan has added differ pairwise in those four fields.
C26_InOrderDuplicates ==
    /\ (pc = "scan" /\ ~dry_run) =>
           /\ \A r1, r2 \in 1..Len(outcomes) :
                  (r1 < r2 /\ outcomes[r1] = "Accepted" /\ RowOk(r2)
                      /\ RowKey(r1) = RowKey(r2)) => outcomes[r2] = "Duplicate"
           /\ NoDupKeys(SubSeq(ledger, Len(ledger0) + 1, Len(ledger)))
    /\ \A k \in Scans :
           ~log[k].dry =>
               /\ \A r1, r2 \in 1..Len(DataRows) :
                      (r1 < r2 /\ log[k].outcomes[r1] = "Accepted" /\ RowOk(r2)
                          /\ RowKey(r1) = RowKey(r2)) => log[k].outcomes[r2] = "Duplicate"
               /\ NoDupKeys(SubSeq(log[k].after, Len(log[k].before) + 1,
                                   Len(log[k].after)))

\* two rows written differently with the same date, amount and description:
\* the commit scan accepts the first and skips the second, after a dry-run
\* that accepted both
C26_Witness ==
    /\ Len(log) = 2 /\ log[1].dry /\ ~log[2].dry
    /\ Len(DataRows) = 2
    /\ DataRows[1].row # DataRows[2].row
    /\ RowOk(1) /\ RowOk(2)
    /\ RowKey(1) = RowKey(2)
    /\ log[1].outcomes = <<"Accepted", "Accepted">>
    /\ log[2].outcomes = <<"Accepted", "Duplicate">>
    /\ Len(log[2].after) = Len(log[2].before) + 1

\* C28: no step of a dry-run or commit scan gives a table without two
\* records of the same account, date, amount and description (a stored NULL
\* description read as empty) two such records.
C28_NoDuplicatesCreated ==
    /\ [][NoDupKeys(ledger) => NoDupKeys(ledger')]_vars
    /\ [](NoDupKeys(ledger0) => NoDupKeys(ledger))
    /\ [](\A k \in Scans : NoDupKeys(log[k].before) => NoDupKeys(log[k].after))

\* a commit scan added two records to a table that held one with a NULL
\* description, and skipped a row with the empty description
C28_Witness ==
    /\ log # <<>>
    /\ ~log[Len(log)].dry
    /\ log[Len(log)].imported = 1
    /\ log[Len(log)].skipped = 1
    /\ mapping = MapDescLast
    /\ \E i \in 1..Len(log[Len(log)].before) :
           log[Len(log)].before[i].description = NullText
    /\ NoDupKeys(ledger)

\* C29: the dry-run scan and the commit scan of one import_csv fail the same
\* rows, with the same count and the same kept messages; the commit scan
\* accepts only rows the dry-run accepted; and the accepted and duplicate
\* rows together are as many in both.
C29_DryRunCommitAgree ==
    \A k \in Scans :
        (k + 1 \in Scans /\ log[k].dry /\ ~log[k + 1].dry /\ log[k].op = log[k + 1].op) =>
            /\ Positions(log[k].outcomes, {"Failed"})
                  = Positions(log[k + 1].outcomes, {"Failed"})
            /\ log[k].failed = log[k + 1].failed
            /\ log[k].errors = log[k + 1].errors
            /\ Positions(log[k + 1].outcomes, {"Accepted"})
                  \subseteq Positions(log[k].outcomes, {"Accepted"})
            /\ log[k + 1].imported <= log[k].imported
            /\ log[k].imported + log[k].skipped = log[k + 1].imported + log[k + 1].skipped

\* an import with a failed row, where the commit scan accepts fewer rows
\* than the dry-run did
C29_Witness ==
    \E k \in Scans :
        /\ k + 1 \in Scans /\ log[k].dry /\ ~log[k + 1].dry /\ log[k].op = log[k + 1].op
        /\ log[k + 1].imported < log[k].imported
        /\ log[k + 1].imported >= 1

\* In the files of EnvFiles, read with MapAmount, the rows that fail
\* normalization are those with the date 13/45/2024, and every other row is
\* 12.50 for Coffee on 2024-03-04 in account 1
EnvRowOk(r) == DataRows[r].row[1] # tBadDate

EnvRowKey == <<1, tIso, 1250, tCoffee>>

\* C23: a storage error in the duplicate query or in the insert of a row
\* makes that row Failed with the message of the error, and no other row:
\* a row is Failed exactly when its normalization fails or it met a storage
\* error; add_transaction is called at most once for a row; and the scan
\* goes on to the last row.
C23_StorageErrorIsRowError ==
    /\ pc = "scan" => (Len(outcomes) = pos - 2 /\ Len(storage) = pos - 2)
    /\ \A k \in Scans :
           /\ Len(log[k].outcomes) = Len(DataRows)
           /\ Len(log[k].storage) = Len(DataRows)
           /\ \A r \in 1..Len(DataRows) :
                  /\ log[k].storage[r].inserts <= 1
                  /\ log[k].storage[r].fault # "none" =>
                         /\ log[k].outcomes[r] = "Failed"
                         /\ KeptMessage(k, r, StorageMsg)
                  /\ (log[k].outcomes[r] = "Failed") <=>
                         (log[k].storage[r].fault # "none" \/ ~EnvRowOk(r))

\* a commit scan whose first insert raised accepted its second row
C23_Witness ==
    \E k \in Scans :
        /\ ~log[k].dry
        /\ Len(log[k].outcomes) = 2
        /\ log[k].storage[1].fault = "insert"
        /\ log[k].storage[1].inserts = 1
        /\ log[k].outcomes = <<"Failed", "Accepted">>
        /\ log[k].errors = <<StorageMsg>>

\* another writer inserted the record of data row r after dry-run scan k
\* tested row r and before the commit scan that follows tested it: in the
\* rest of the dry-run scan, while the question box was shown, or in the
\* commit scan before row r (the line r + 1 of the file)
InsertedBetween(k, r) ==
    \E i \in 1..Len(foreign) :
        /\ EnvRowOk(r)
        /\ MatchKey(foreign[i].rec) = EnvRowKey
        /\ \/ /\ foreign[i].scans = k - 1
              /\ foreign[i].pc = "scan"
              /\ foreign[i].pos > r + 1
           \/ /\ foreign[i].scans = k
              /\ foreign[i].pc = "confirm"
                   \/ (foreign[i].pc = "scan" /\ foreign[i].pos <= r + 1)

\* C25: when another writer inserts the record of row r between the dry-run
\* scan and the moment the commit scan tests r, the commit scan tags r
\* Duplicate and does not insert it; and a row Accepted in the dry-run is
\* Duplicate in the commit scan only then.
C25_LiveDuplicateCheck ==
    \A k \in Scans :
        (k + 1 \in Scans /\ log[k].dry /\ ~log[k + 1].dry /\ log[k].op = log[k + 1].op) =>
            \A r \in 1..Len(DataRows) :
                /\ (InsertedBetween(k, r) /\ log[k + 1].storage[r].fault = "none") =>
                       /\ log[k + 1].outcomes[r] = "Duplicate"
                       /\ log[k + 1].storage[r].inserts = 0
                /\ (log[k].outcomes[r] = "Accepted"
                       /\ log[k + 1].outcomes[r] = "Duplicate") => InsertedBetween(k, r)

\* the first half of it: the duplicate test of the commit scan sees what
\* other writers inserted before it
SeesOtherWriters ==
    \A k \in Scans :
        (k + 1 \in Scans /\ log[k].dry /\ ~log[k + 1].dry /\ log[k].op = log[k + 1].op) =>
            \A r \in 1..Len(DataRows) :
                (InsertedBetween(k, r) /\ log[k + 1].storage[r].fault = "none") =>
                    /\ log[k + 1].outcomes[r] = "Duplicate"
                    /\ log[k + 1].storage[r].inserts = 0

\* a row accepted by the dry-run is skipped by the commit scan after another
\* writer inserted its record while the commit scan was at an earlier row
SeesOtherWritersCase ==
    /\ Len(log) = 2 /\ log[1].dry /\ ~log[2].dry
    /\ Len(DataRows) = 2
    /\ foreign # <<>>
    /\ InsertedBetween(1, 2)
    /\ foreign[1].pc = "scan"
    /\ log[1].outcomes[2] = "Accepted"
    /\ log[2].outcomes[2] = "Duplicate"
    /\ log[2].outcomes[1] = "Accepted"

====
